---------------------------- MODULE Spec2Model ----------------------------
(***************************************************************************)
(* memur: a bump-allocating arena (src/src/arena.rs) over blocks           *)
(* (src/src/block.rs) taken from a shared block pool (src/src/memory.rs),  *)
(* with an inlined chain of destructor thunks (src/src/droplist.rs) and    *)
(* strong / weak reference-counted handles.                                *)
(*                                                                         *)
(* Sizes are bytes of the x86_64 layout of the structs.  usize arithmetic  *)
(* is modular; the word is USIZE_BITS wide (the integers of TLC are      *)
(* 32 bit, so the 64-bit word is scaled down, all sizes staying below      *)
(* isize::MAX of the scaled word).                                         *)
(***************************************************************************)
EXTENDS Integers, Sequences, FiniteSets, TLC

VARIABLES
    cfg,      \* what the driving program may do in this run (bounds, input sets)
    pool,     \* ArenaMemoryInstance behind Memory
    md,       \* ArenaMetadata of the arena (and whether its memory is allocated)
    blocks,   \* block id -> BlockMetadata header of the blocks wrapped by Block::new
    lists,    \* DropList nodes placed in the arena, a pointer is an index (0 = null)
    placed,   \* every byte region handed out by a placement, in program order
    handles,  \* live Arena / WeakArena handles held by the program
    log,      \* thunks executed so far, in execution order
    stats,    \* how often drop_objects / reclaim_memory ran, thunks registered,
              \* blocks the arena took from the pool, the pool as it was before
              \* Arena::new, thunks executed when its blocks were returned
    ret,      \* the last call and what it returned
    panic,    \* "none", or the message of the panic that ended the run
    calls,    \* placements and registrations the program has made
    heap,     \* what the containers wrote into the regions they placed
              \* (pointer -> NMetadata, DropItem, ArrayMetadata, items, PartialSequence)
    drops,    \* destructors of values run so far, in execution order
    owned,    \* container handles held by the program (N, arrays, lists)
    threads   \* the arenas of the threads of a concurrent run: per thread the
              \* blocks its arena holds and whether it is returning them

vars == <<cfg, pool, md, blocks, lists, placed, handles, log, stats, ret, panic,
          calls, heap, drops, owned, threads>>

----------------------------------------------------------------------------
(* Bounds of the model *)

MaxPlaced == 2        \* placements + registrations the program makes in a small run
MaxHandles == 3       \* live handles of one arena (rc never exceeds it)
MaxArenas == 2        \* arenas created one after the other on the same pool
ChainExtra == 2       \* thunks registered beyond one full DropList in a chain run
USIZE_BITS == 20      \* width of usize / isize in the model
MaxCalls == 3         \* placing calls the program makes in a run with containers
MaxCells == 3         \* N cells of a run
MaxLen == 2           \* items of a fixed array, capacity of an initializer,
                      \* pushes to the list of a small run
ListExtra == 2        \* pushes beyond two full sequences in a long list run
MaxThreads == 2       \* threads of a concurrent run, each with its own arenas
MaxBlocks == 2        \* blocks one arena of a thread takes
MaxIds == 6           \* buffers the pool allocates in a concurrent run

(* Program constants *)

MAX_DROP_LIST_ITEMS == 1022
size_of_BlockMetadata == 24     \* usize + Option<Block> (Box<[u8]> is a fat pointer)
size_of_ArenaMetadata == 56     \* Arc + Option<Block> + 2 pointers + 2 i64
size_of_DropItem == 16          \* Option<DropItem>: fn pointer (niche) + data pointer
align_of_pointer == 8
DEFAULT_BLOCK_SIZE == 65536     \* 1024*64
DEFAULT_MIN_FREE == 2
DEFAULT_MAX_FREE == 4
MAX_ITEMS == 32                 \* slots of one PartialSequence of a List
size_of_NDropItem == 24         \* n.rs DropItem: fun, data, next
size_of_ArrayMetadata == 16     \* _len + _data
size_of_PartialSequence == 272   \* 32 slots of 8 bytes + next_list + used_items, padded to 8
MAX_USTR == 65534               \* u16::MAX as usize - 1

\* [Option<DropItem>; 1022] + Option<*mut DropList> (16) + u16, padded to 8
size_of_DropList == MAX_DROP_LIST_ITEMS * size_of_DropItem + 24

USIZE_MOD == 2 ^ USIZE_BITS
ISIZE_MIN_ABS == 2 ^ (USIZE_BITS - 1)

\* `x as isize` for a usize x
as_isize(x) == IF x >= ISIZE_MIN_ABS THEN x - USIZE_MOD ELSE x

None == [none |-> TRUE]
NULL == 0

----------------------------------------------------------------------------
(* memory.rs: the block pool.  p.arc is the strong count of the Arc that holds
   the pool: one per Memory handle.  The program keeps its own Memory handle
   for the whole run *)

RECURSIVE refill(_)
refill(p) ==
    IF Len(p.free_blocks) < p.max_free
    THEN refill([p EXCEPT !.free_blocks = <<p.next_id>> \o @,
                          !.next_id = @ + 1])
    ELSE p

check_if_not_enough_blocks_and_initialize(p) ==
    IF Len(p.free_blocks) < p.min_free THEN refill(p) ELSE p

ArenaMemoryInstance_new(min, max, size) ==
    check_if_not_enough_blocks_and_initialize(
        [free_blocks |-> <<>>, max_free |-> max, min_free |-> min,
         new_block_size |-> size, next_id |-> 1, dropped |-> {}, arc |-> 0])

\* MemoryBuilder::build: the pool behind a first handle
MemoryBuilder_build(min, max, size) ==
    [ArenaMemoryInstance_new(min, max, size) EXCEPT !.arc = 1]

\* #[derive(Clone)] for Memory: one more handle of the same pool
Memory_clone(p) == [p EXCEPT !.arc = @ + 1]

\* a Memory handle is dropped: the last one drops the pool, which deallocates
\* every block of the free list
Memory_drop(p) ==
    IF p.arc = 1
    THEN [p EXCEPT !.arc = 0, !.free_blocks = <<>>,
                   !.dropped = @ \cup {p.free_blocks[i] : i \in DOMAIN p.free_blocks}]
    ELSE [p EXCEPT !.arc = @ - 1]

\* a pop_back that leaves the block in the free list
pop_back_C25(p1) ==
    IF Len(p1.free_blocks) = 0
    THEN [pool |-> p1, block |-> NULL]
    ELSE [pool |-> p1, block |-> p1.free_blocks[Len(p1.free_blocks)]]

\* self.free_blocks.pop_back(); block = NULL stands for the failed expect
pop_back(p1) ==
    IF Len(p1.free_blocks) = 0
    THEN [pool |-> p1, block |-> NULL]
    ELSE [pool |-> [p1 EXCEPT !.free_blocks = SubSeq(@, 1, Len(@) - 1)],
          block |-> p1.free_blocks[Len(p1.free_blocks)]]

take_block(p) == pop_back(check_if_not_enough_blocks_and_initialize(p))

\* a return_block that drops the buffer when the free list is at max_free
return_block_C35(p, b) ==
    IF Len(p.free_blocks) >= p.max_free
    THEN [p EXCEPT !.dropped = @ \cup {b}]
    ELSE [p EXCEPT !.free_blocks = Append(@, b)]

return_block(p, b) == [p EXCEPT !.free_blocks = Append(@, b)]

\* a cleanup that drops every free block
cleanup_C24(p, cleaned_up_size) ==
    [pool |-> [p EXCEPT !.free_blocks = <<>>,
                        !.dropped = @ \cup {p.free_blocks[i] : i \in DOMAIN p.free_blocks}],
     size |-> cleaned_up_size + Len(p.free_blocks) * p.new_block_size]

RECURSIVE cleanup(_, _)
cleanup(p, cleaned_up_size) ==
    IF Len(p.free_blocks) > p.max_free
    THEN cleanup([p EXCEPT !.free_blocks = Tail(@),
                           !.dropped = @ \cup {Head(p.free_blocks)}],
                 cleaned_up_size + p.new_block_size)
    ELSE [pool |-> p, size |-> cleaned_up_size]

----------------------------------------------------------------------------
(* block.rs: one block.  A header h is [len, next_item_offset, previous_block],
   len being the length of the buffer that holds it *)

\* BlockMetadata::init_in_slice, the header Block::new writes into the buffer
init_in_slice(len) ==
    [len |-> len, next_item_offset |-> size_of_BlockMetadata, previous_block |-> NULL]

largest_item_size(h) == h.len - size_of_BlockMetadata

padding_for(offset, align) == (align - (offset % align)) % align

\* Block::push_copy
push_copy(h, size, align) ==
    LET aligned == h.next_item_offset + padding_for(h.next_item_offset, align)
        end     == aligned + size
    IN  IF end > h.len
        THEN [res |-> IF size > largest_item_size(h)
                      THEN "ItemTooBig" ELSE "NotEnoughSpaceInBlock",
              hdr |-> h, start |-> aligned]
        ELSE [res |-> "Ok",
              hdr |-> [h EXCEPT !.next_item_offset = end], start |-> aligned]

\* Block::remaining_bytes_for_alignment: (remaining as isize, aligned start)
remaining_bytes_for_alignment(h, align) ==
    LET aligned == h.next_item_offset + padding_for(h.next_item_offset, align)
    IN  [remaining |-> h.len - aligned, aligned |-> aligned]

\* Block::upload_bytes_unchecked: the cursor becomes aligned_start + len.  With
\* debug assertions the overflowing addition and the debug_assert panic; without
\* them the addition wraps and the cursor is written as computed.
upload_bytes_unchecked(h, aligned_start, len, debug) ==
    LET end == aligned_start + len
    IN  IF debug /\ end > h.len
        THEN [res |-> "panic", hdr |-> h]
        ELSE [res |-> "Ok", hdr |-> [h EXCEPT !.next_item_offset = end % USIZE_MOD]]

\* Block::upload_bytes_unchecked_uninit (called by arena.rs, not in block.rs):
\* reserves len bytes from aligned_start without writing them
upload_bytes_unchecked_uninit(h, aligned_start, len, debug) ==
    LET end == aligned_start + len
    IN  IF debug /\ end >= USIZE_MOD
        THEN [res |-> "panic", hdr |-> h]
        ELSE [res |-> "Ok", hdr |-> [h EXCEPT !.next_item_offset = end % USIZE_MOD]]

----------------------------------------------------------------------------
(* droplist.rs: one DropList node.  items holds the slots written so far
   (a thunk, or None once executed); the slots after them are None *)

DropList_empty == [items |-> <<>>, next_list |-> NULL, used_items |-> 0]

\* a write_item that never reports a full node
write_item_C31(l, item) ==
    [res |-> "ListNotFull",
     list |-> [l EXCEPT !.items = Append(@, item), !.used_items = @ + 1]]

\* DropList::write_item; the indexing panics when the node is already full
write_item(l, item) ==
    IF l.used_items >= MAX_DROP_LIST_ITEMS
    THEN [res |-> "panic", list |-> l]
    ELSE LET l1 == [l EXCEPT !.items = IF l.used_items < Len(@)
                                        THEN [@ EXCEPT ![l.used_items + 1] = item]
                                        ELSE Append(@, item),
                             !.used_items = @ + 1]
         IN  [res |-> IF l1.used_items = MAX_DROP_LIST_ITEMS
                      THEN "ListFull" ELSE "ListNotFull",
              list |-> l1]

set_next_list(l, list) == [l EXCEPT !.next_list = list]

slot(l, i) == IF i <= Len(l.items) THEN l.items[i] ELSE None

----------------------------------------------------------------------------
(* arena.rs: ArenaMetadata.  The operators below take and return the record
   s = [pool, md, blocks, lists, placed, log, stats, panic, heap, drops, res] *)

St ==
    [pool |-> pool, md |-> md, blocks |-> blocks, lists |-> lists,
     placed |-> placed, log |-> log, stats |-> stats, panic |-> panic,
     heap |-> heap, drops |-> drops,
     res |-> [res |-> "none"]]

Panic(s, msg) == [s EXCEPT !.panic = msg, !.res = [res |-> "panic"]]

Return(s, r) == [s EXCEPT !.res = r]

inc_rc(m) == [m EXCEPT !.strong_rc = @ + 1, !.rc = @ + 1]

dec_rc(m) == [m EXCEPT !.strong_rc = @ - 1, !.rc = @ - 1]

\* a to_weak_arena that counts the new handle as a strong one
inc_weak_C29(m) == [m EXCEPT !.strong_rc = @ + 1, !.rc = @ + 1]

inc_weak(m) == [m EXCEPT !.rc = @ + 1]

\* dec_weak that decrements as dec_rc does
dec_weak_C7(m) == [m EXCEPT !.strong_rc = @ - 1, !.rc = @ - 1]

dec_weak(m) == [m EXCEPT !.rc = @ - 1]

\* the byte region [start, start + size) of block b handed out by a placement
Region(kind, b, before, start, size, align, after, weak) ==
    [kind |-> kind, block |-> b, before |-> before, start |-> start,
     size |-> size, align |-> align, after |-> after, weak |-> weak]

\* a successful push_copy into block b: the header is written and the region
\* recorded; the pointer returned is the index of the region
Placed(s, kind, b, r, size, align, weak) ==
    [s EXCEPT !.blocks[b] = r.hdr,
              !.placed = Append(@, Region(kind, b, s.blocks[b].next_item_offset,
                                          r.start, size, align,
                                          r.hdr.next_item_offset, weak)),
              !.res = [res |-> "Ok", ptr |-> Len(s.placed) + 1]]

\* let mut block = Some(Block::new(self.memory.take_block()));
\* swap(&mut block, &mut self.last_block); last_block.set_previous_block(block)
\* (t is what take_block returned)
link_block(s, t) ==
    IF t.block = NULL
    THEN Panic([s EXCEPT !.pool = t.pool], "no allocated memory")
    ELSE IF size_of_BlockMetadata > t.pool.new_block_size
    THEN Panic([s EXCEPT !.pool = t.pool], "init metadata in block")
    ELSE [s EXCEPT !.pool = t.pool,
                   !.blocks = (t.block :> [init_in_slice(t.pool.new_block_size)
                                   EXCEPT !.previous_block = s.md.last_block]) @@ @,
                   !.md.last_block = t.block,
                   !.stats.taken = @ \cup {t.block}]

next_block(s) == link_block(s, take_block(s.pool))

\* ArenaMetadata::upload_no_drop (kind names what is placed)
\* the second push_copy of upload_no_drop, s1 being the arena with the fresh block
upload_no_drop_retry(s1, kind, size, align) ==
    LET b1 == s1.md.last_block
        r1 == push_copy(s1.blocks[b1], size, align)
    IN  IF s1.panic # "none" THEN s1
        ELSE IF r1.res # "Ok"
        THEN Panic(s1, "fits into subsequent block (2)")
        ELSE Placed(s1, kind, b1, r1, size, align, 0)

upload_no_drop(s, kind, size, align) ==
    LET b == s.md.last_block
        r == push_copy(s.blocks[b], size, align)
    IN  IF r.res = "Ok" THEN Placed(s, kind, b, r, size, align, 0)
        ELSE IF r.res = "ItemTooBig" THEN Return(s, [res |-> "ItemDoesNotFit"])
        ELSE upload_no_drop_retry(next_block(s), kind, size, align)

\* ArenaMetadata::push_next_drop_list
\* s1 is the arena after the upload of the empty node
link_drop_list(s1) ==
    IF s1.panic # "none" THEN s1
    ELSE IF s1.res.res # "Ok" THEN Return(s1, [res |-> "DropListDoesNotFit"])
    ELSE [s1 EXCEPT !.lists = Append([@ EXCEPT ![s1.md.last_drop_list] =
                                         set_next_list(@, Len(s1.lists) + 1)],
                                     DropList_empty),
                    !.md.last_drop_list = Len(s1.lists) + 1]

push_next_drop_list(s) ==
    link_drop_list(upload_no_drop(s, "DropList", size_of_DropList, align_of_pointer))

\* ArenaMetadata::push_drop_fn::<T> and push_custom_drop_fn: the thunk (fun, data)
\* is written to the last node; a node filled by the write gets a successor
\* the match on the result w of the write; s2 is the arena after it, with the
\* next node placed when the write filled the node
push_drop_item_result(s, w, s2, data, id) ==
    IF w.res = "panic" THEN Panic(s, "index out of bounds")
    ELSE IF s2.panic # "none" THEN s2
    ELSE IF w.res = "ListFull" /\ s2.res.res # "Ok" THEN s2
    ELSE Return(s2, [res |-> "Ok", ptr |-> data, item |-> id])

push_drop_item(s, fun, data) ==
    IF s.md.first_drop_list = NULL \/ s.md.last_drop_list = NULL
    THEN Panic(s, "push: drop list not null")
    ELSE LET item == [fun |-> fun, data |-> data, id |-> s.stats.registered + 1]
             w    == write_item(s.lists[s.md.last_drop_list], item)
             s1   == [s EXCEPT !.lists[s.md.last_drop_list] = w.list,
                               !.stats.registered = @ + 1]
         IN  push_drop_item_result(
                 s, w,
                 IF w.res = "ListFull" THEN push_next_drop_list(s1) ELSE s1,
                 data, item.id)

push_drop_fn(s, data) == push_drop_item(s, "drop", data)

push_custom_drop_fn(s, data) == push_drop_item(s, "custom", data)

\* ArenaMetadata::upload_auto_drop; weak = WeakArena handles the value owns
\* the second push_copy of upload_auto_drop, s1 being the arena with the fresh
\* block
upload_auto_drop_retry(s1, size, align, weak) ==
    LET b1 == s1.md.last_block
        r1 == push_copy(s1.blocks[b1], size, align)
    IN  IF s1.panic # "none" THEN s1
        ELSE IF r1.res # "Ok"
        THEN Panic(s1, "fits into subsequent block (1)")
        ELSE push_drop_fn(Placed(s1, "auto_drop", b1, r1, size, align, weak),
                          Len(s1.placed) + 1)

upload_auto_drop(s, size, align, weak) ==
    LET b == s.md.last_block
        r == push_copy(s.blocks[b], size, align)
    IN  IF r.res = "Ok"
        THEN push_drop_fn(Placed(s, "auto_drop", b, r, size, align, weak),
                          Len(s.placed) + 1)
        ELSE IF r.res = "ItemTooBig" THEN Return(s, [res |-> "ItemDoesNotFit"])
        ELSE upload_auto_drop_retry(next_block(s), size, align, weak)

\* a successful upload_bytes_unchecked / _uninit into block b
PlacedBytes(s, kind, b, u, start, len, align) ==
    [s EXCEPT !.blocks[b] = u.hdr,
              !.placed = Append(@, Region(kind, b, s.blocks[b].next_item_offset,
                                          start, len, align,
                                          u.hdr.next_item_offset, 0)),
              !.res = [res |-> "Ok", ptr |-> Len(s.placed) + 1]]

\* ArenaMetadata::upload_no_drop_bytes ([u8; 1] has alignment 1)
\* the second attempt of upload_no_drop_bytes, s1 being the arena with the
\* fresh block
upload_no_drop_bytes_retry(s1, len, debug) ==
    LET b1 == s1.md.last_block
        a1 == remaining_bytes_for_alignment(s1.blocks[b1], 1)
        u1 == upload_bytes_unchecked(s1.blocks[b1], a1.aligned, len, debug)
    IN  IF s1.panic # "none" THEN s1
        ELSE IF a1.remaining >= as_isize(len)
        THEN IF u1.res = "panic"
             THEN Panic(s1, "upload_bytes_unchecked end <= data.len")
             ELSE PlacedBytes(s1, "bytes", b1, u1, a1.aligned, len, 1)
        ELSE Panic(s1, "upload_no_drop_bytes failed after acquiring the next block")

upload_no_drop_bytes(s, len, debug) ==
    LET b  == s.md.last_block
        a  == remaining_bytes_for_alignment(s.blocks[b], 1)
        u  == upload_bytes_unchecked(s.blocks[b], a.aligned, len, debug)
    IN  IF a.remaining >= as_isize(len)
        THEN IF u.res = "panic"
             THEN Panic(s, "upload_bytes_unchecked end <= data.len")
             ELSE PlacedBytes(s, "bytes", b, u, a.aligned, len, 1)
        ELSE IF len > largest_item_size(s.blocks[b])
        THEN Return(s, [res |-> "ItemDoesNotFit"])
        ELSE upload_no_drop_bytes_retry(next_block(s), len, debug)

\* ArenaMetadata::alloc_no_drop_items_aligned_uninit::<T>; the product wraps
\* without debug assertions and panics with them
\* the second attempt of alloc_no_drop_items_aligned_uninit, s1 being the arena
\* with the fresh block
alloc_no_drop_items_aligned_uninit_retry(s1, align, total_array_len, debug) ==
    LET b1 == s1.md.last_block
        a1 == remaining_bytes_for_alignment(s1.blocks[b1], align)
        u1 == upload_bytes_unchecked_uninit(s1.blocks[b1], a1.aligned,
                                             total_array_len, debug)
    IN  IF s1.panic # "none" THEN s1
        ELSE IF a1.remaining >= as_isize(total_array_len)
        THEN IF u1.res = "panic"
             THEN Panic(s1, "attempt to add with overflow")
             ELSE PlacedBytes(s1, "uninit", b1, u1, a1.aligned, total_array_len, align)
        ELSE Panic(s1,
               "alloc_no_drop_items_aligned_uninit failed after acquiring the next block")

alloc_no_drop_items_aligned_uninit(s, align, len, offset_between_items, debug) ==
    LET total_array_len == (len * offset_between_items) % USIZE_MOD
        b  == s.md.last_block
        a  == remaining_bytes_for_alignment(s.blocks[b], align)
        u  == upload_bytes_unchecked_uninit(s.blocks[b], a.aligned,
                                            total_array_len, debug)
    IN  IF debug /\ len * offset_between_items >= USIZE_MOD
        THEN Panic(s, "attempt to multiply with overflow")
        ELSE IF a.remaining >= as_isize(total_array_len)
        THEN IF u.res = "panic"
             THEN Panic(s, "attempt to add with overflow")
             ELSE PlacedBytes(s, "uninit", b, u, a.aligned, total_array_len, align)
        ELSE IF total_array_len > largest_item_size(s.blocks[b])
        THEN Return(s, [res |-> "ItemDoesNotFit"])
        ELSE alloc_no_drop_items_aligned_uninit_retry(next_block(s), align,
                                                      total_array_len, debug)

\* ArenaMetadata::reclaim_memory: the blocks go back to the pool, last first; the
\* copy of the metadata it returns is dropped by the caller, which releases the
\* pool handle stored in the metadata
\* a reclaim_memory that returns the last block only
return_chain_C26(s, block) ==
    IF block = NULL THEN s
    ELSE [s EXCEPT !.pool = return_block(@, block),
                   !.blocks = [x \in (DOMAIN @) \ {block} |-> @[x]]]

RECURSIVE return_chain(_, _)
return_chain(s, block) ==
    IF block = NULL THEN s
    ELSE return_chain(
            [s EXCEPT !.pool = return_block(@, block),
                      !.blocks = [x \in (DOMAIN @) \ {block} |-> @[x]]],
            s.blocks[block].previous_block)

reclaim_memory(s) ==
    [return_chain([s EXCEPT !.md.last_block = NULL], s.md.last_block)
        EXCEPT !.md.alloc = "freed",
               !.pool = Memory_drop(@),
               !.stats.executed = IF s.stats.reclaims = 0 THEN Len(s.log) ELSE @,
               !.stats.reclaims = @ + 1,
               !.stats.memory_drops = @ + 1]

\* the memory is reclaimed as soon as no strong handle is left
reclaim_if_unreferenced_C4(s) ==
    IF s.md.strong_rc = 0 THEN reclaim_memory(s) ELSE s

\* if (*metadata).rc == 0 { metadata.reclaim_memory() }
reclaim_if_unreferenced(s) ==
    IF s.md.rc = 0 THEN reclaim_memory(s) ELSE s

\* impl Drop for WeakArena
WeakArena_drop(s) == reclaim_if_unreferenced([s EXCEPT !.md = dec_weak(@)])

\* the WeakArena handles owned by a value are dropped with it
RECURSIVE drop_weak_fields(_, _)
drop_weak_fields(s, n) ==
    IF n = 0 THEN s ELSE drop_weak_fields(WeakArena_drop(s), n - 1)

\* one run of the destructor of a value: of the value placed at ptr (k = 0) or
\* of item k of the array whose items lie at ptr
Dropped(ptr, k, by) == [ptr |-> ptr, k |-> k, by |-> by]

\* the destructor of a plain T placed at p runs; the WeakArena handles the
\* value owns are dropped with it
drop_T(s, p) ==
    drop_weak_fields([s EXCEPT !.drops = Append(@, Dropped(p, 0, "drop")),
                               !.placed[p].weak = 0],
                     s.placed[p].weak)

\* n.rs, impl Drop for NMetadata<T>, run on the bitwise copy that the thunk
\* makes: the outlives chain is executed from its head, each record dropping
\* the NMetadata<O> it points at, and then the value field is dropped
RECURSIVE drop_NMetadata(_, _)
RECURSIVE drop_outlives(_, _)
\* let next = (*outlives).next; (*outlives).next = null_mut(); outlives = next
drop_outlives_next(s1, d) ==
    drop_outlives([s1 EXCEPT !.heap[d].next = NULL], s1.heap[d].next)

drop_outlives(s, d) ==
    IF d = NULL THEN s
    ELSE drop_outlives_next(drop_NMetadata(s, s.heap[d].data), d)

\* a destructor of the cell that drops the value before it walks the chain
drop_NMetadata_C13(s, p) ==
    drop_outlives(drop_T(s, p), s.heap[p].outlives)

drop_NMetadata(s, p) ==
    drop_T(drop_outlives(s, s.heap[p].outlives), p)

\* the item of an array found at byte offset off of its data region; 0 stands
\* for bytes that no item was written to
item_at(region, off) ==
    IF off \in DOMAIN region.at THEN region.at[off] ELSE 0

\* array_uninit.rs drop_array::<T>, the loop over iter_impl(data, len): item i
\* is read at data + size_of::<T>() * i and dropped
RECURSIVE drop_items(_, _, _, _, _)
drop_items(s, data, size, i, len) ==
    IF i >= len THEN s
    ELSE drop_items([s EXCEPT !.drops =
                        Append(@, Dropped(data, item_at(s.heap[data], size * i), "drop"))],
                    data, size, i + 1, len)

\* drop_array that leaves _len and _data as they were
drop_array_C15(s, m) ==
    IF s.heap[m]._data = NULL THEN s
    ELSE drop_items(s, s.heap[m]._data, s.heap[m].size, 0, s.heap[m]._len)

\* array_uninit.rs drop_array::<T>, the thunk of an array, m its ArrayMetadata
drop_array(s, m) ==
    IF s.heap[m]._data = NULL THEN s
    ELSE [drop_items([s EXCEPT !.heap[m]._len = 0],
                     s.heap[m]._data, s.heap[m].size, 0, s.heap[m]._len)
             EXCEPT !.heap[m]._data = NULL]

\* the thunk of a growable array, m its metadata { len, capacity, ptrs }: the
\* elements at ptrs[0 .. len) are destroyed in place, in index order
RECURSIVE drop_elements(_, _, _, _)
drop_elements(s, table, i, len) ==
    IF i >= len THEN s
    ELSE drop_elements([s EXCEPT !.drops =
                           Append(@, Dropped(s.heap[table].at[i + 1],
                                             s.heap[s.heap[table].at[i + 1]].item,
                                             "element"))],
                       table, i + 1, len)

\* a thunk that destroys every element that was ever pushed
drop_ptr_array_C27(s, m) ==
    drop_elements(s, s.heap[m].ptrs, 0, Len(s.heap[s.heap[m].ptrs].at))

drop_ptr_array(s, m) ==
    IF s.heap[m].ptrs = NULL THEN s
    ELSE drop_elements(s, s.heap[m].ptrs, 0, s.heap[m].len)

\* droplist.rs drop::<T>: the drop glue of the type placed at p.  A
\* PartialSequence has no destructor, a value placed by N::new is an NMetadata
drop(s, p) ==
    IF p \notin DOMAIN s.heap THEN drop_T(s, p)
    ELSE IF s.heap[p].kind = "NMetadata" THEN drop_NMetadata(s, p)
    ELSE s

\* DropItem::execute: drop::<T> destroys the value at data, and with it the
\* handles the value owns; drop_array::<T> destroys the items of an array; any
\* other custom thunk runs the caller's function
execute(s, item) ==
    IF item.fun = "drop"
    THEN drop([s EXCEPT !.log = Append(@, item)], item.data)
    ELSE IF item.fun = "drop_array"
    THEN drop_array([s EXCEPT !.log = Append(@, item)], item.data)
    ELSE IF item.fun = "drop_ptr_array"
    THEN drop_ptr_array([s EXCEPT !.log = Append(@, item)], item.data)
    ELSE [s EXCEPT !.log = Append(@, item)]

\* a loop that leaves the executed slots as they were
RECURSIVE execute_items_C32(_, _, _, _)
execute_items_C32(r, list, lo, hi) ==
    IF r.returned THEN r
    ELSE IF lo = hi
    THEN IF slot(r.s.lists[list], lo) = None
         THEN [r EXCEPT !.returned = TRUE]
         ELSE [r EXCEPT !.s = execute(r.s, slot(r.s.lists[list], lo))]
    ELSE LET mid == (lo + hi) \div 2
         IN  execute_items_C32(execute_items_C32(r, list, lo, mid), list, mid + 1, hi)

\* the body of the loop over list.items for the slots lo..hi in order; r is
\* [s, returned], returned once the loop met an empty slot and the function
\* returned (the range is halved so that the evaluation stays shallow)
RECURSIVE execute_items(_, _, _, _)
execute_items(r, list, lo, hi) ==
    IF r.returned THEN r
    ELSE IF lo = hi
    THEN IF slot(r.s.lists[list], lo) = None
         THEN [r EXCEPT !.returned = TRUE]
         ELSE [r EXCEPT !.s = [execute(r.s, slot(r.s.lists[list], lo))
                                  EXCEPT !.lists[list].items[lo] = None]]
    ELSE LET mid == (lo + hi) \div 2
         IN  execute_items(execute_items(r, list, lo, mid), list, mid + 1, hi)

\* the end of a round of execute_drop_chain that forgets the nodes linked to
\* the node executed
execute_next_list_C2(r, list) ==
    IF r.returned THEN r.s
    ELSE [r.s EXCEPT !.lists[list].next_list = NULL]

\* DropList::execute_drop_chain, from node list on; execute_next_list is the
\* end of one round of the while loop, r being the result of the for loop
RECURSIVE execute_drop_chain(_, _)
RECURSIVE execute_next_list(_, _)
execute_next_list(r, list) ==
    IF r.returned THEN r.s
    ELSE execute_drop_chain([r.s EXCEPT !.lists[list].next_list = NULL],
                            r.s.lists[list].next_list)

execute_drop_chain(s, list) ==
    IF list = NULL THEN s
    ELSE execute_next_list(
             execute_items([s |-> s, returned |-> FALSE], list,
                           1, MAX_DROP_LIST_ITEMS),
             list)

\* ArenaMetadata::drop_objects
drop_objects(s) ==
    [execute_drop_chain(s, s.md.first_drop_list)
        EXCEPT !.md.first_drop_list = NULL,
               !.md.last_drop_list = NULL,
               !.stats.drop_chains = @ + 1]

\* the drop chain runs when the last handle of any kind goes, not when the
\* last strong handle goes
drop_if_drained_C1(s) ==
    IF s.md.rc = 0 THEN drop_objects(s) ELSE s

\* if (*metadata).strong_rc == 0 { (*metadata).drop_objects() }
drop_if_drained(s) ==
    IF s.md.strong_rc = 0 THEN drop_objects(s) ELSE s

\* impl Drop for Arena
Arena_drop(s) ==
    reclaim_if_unreferenced(drop_if_drained([s EXCEPT !.md = dec_rc(@)]))

\* is_alive that asks for any handle instead of a strong one
is_alive_C6(m) == m.rc > 0

\* WeakArena::is_alive
is_alive(m) == m.strong_rc > 0

\* an Arena::new that gives the block back to the pool when it fails
Arena_new_failed_C34(s, t) == [s EXCEPT !.pool = return_block(t.pool, t.block)]

\* Arena::new returns through `?`: the clone of the Memory handle and the
\* Block, which owns the buffer, are dropped
Arena_new_failed(s, t) ==
    [s EXCEPT !.pool = [t.pool EXCEPT !.dropped = @ \cup {t.block}]]

\* Arena::new: the first block t.block holds the first DropList and the
\* metadata
Arena_new_in(s, t) ==
    LET h  == init_in_slice(t.pool.new_block_size)
        r1 == push_copy(h, size_of_DropList, align_of_pointer)
        r2 == push_copy(r1.hdr, size_of_ArenaMetadata, align_of_pointer)
        s0 == [s EXCEPT !.pool = Memory_clone(t.pool)]
    IN  IF t.block = NULL THEN Panic(s0, "no allocated memory")
        ELSE IF size_of_BlockMetadata > t.pool.new_block_size
        THEN Panic(s0, "init metadata in block")
        ELSE IF r1.res # "Ok"
        THEN Return(Arena_new_failed(s, t), [res |-> "DropListDoesNotFit"])
        ELSE IF r2.res # "Ok"
        THEN Return(Arena_new_failed(s, t), [res |-> "MetadataDoesNotFit"])
        ELSE [s0 EXCEPT
                !.blocks = (t.block :> r2.hdr),
                !.lists = <<DropList_empty>>,
                !.placed = <<Region("DropList", t.block, h.next_item_offset,
                                    r1.start, size_of_DropList, align_of_pointer,
                                    r1.hdr.next_item_offset, 0),
                             Region("ArenaMetadata", t.block, r1.hdr.next_item_offset,
                                    r2.start, size_of_ArenaMetadata, align_of_pointer,
                                    r2.hdr.next_item_offset, 0)>>,
                !.md = [alloc |-> "live", id |-> s.md.id + 1,
                        last_block |-> t.block,
                        first_drop_list |-> 1, last_drop_list |-> 1,
                        strong_rc |-> 1, rc |-> 1],
                !.log = <<>>,
                !.heap = <<>>,
                !.drops = <<>>,
                !.stats = [drop_chains |-> 0, reclaims |-> 0, memory_drops |-> 0,
                           registered |-> 0, taken |-> {t.block},
                           before |-> s.pool, executed |-> 0],
                !.res = [res |-> "Ok"]]

Arena_new(s) == Arena_new_in(s, take_block(s.pool))

----------------------------------------------------------------------------
(* The containers.  A container writes into the regions it placed: heap maps
   the pointer of such a region to what was written *)

Write(s, p, v) == [s EXCEPT !.heap = (p :> v) @@ @]

\* the call that returned s placed nothing or panicked
Failed(s) == s.panic # "none" \/ s.res.res # "Ok"

(* n.rs: N<T>, a value in a cell NMetadata { value, outlives } *)

align_of_NMetadata(align) == IF align > align_of_pointer THEN align ELSE align_of_pointer

size_of_NMetadata(size, align) ==
    size + 8 + padding_for(size + 8, align_of_NMetadata(align))

NMetadata(owner) == [kind |-> "NMetadata", outlives |-> NULL, owner |-> owner]

\* N::new after the upload of the cell: Ok(N { _arena: arena.to_weak_arena(), .. })
N_new_uploaded(s1) ==
    IF Failed(s1) THEN s1
    ELSE [Write(s1, s1.res.ptr, NMetadata(NULL)) EXCEPT !.md = inc_weak(@)]

\* N::new
N_new(s, size, align) ==
    N_new_uploaded(upload_auto_drop(s, size_of_NMetadata(size, align),
                                    align_of_NMetadata(align), 0))

\* an outlives that makes the new record the whole chain of the cell
N_outlives_link_C33(s2, a, o) ==
    IF s2.panic # "none" THEN s2
    ELSE IF s2.res.res # "Ok" THEN Arena_drop(s2)
    ELSE Return(
           Arena_drop(
             [Write(Write(s2, s2.res.ptr,
                          [kind |-> "DropItem", data |-> o, next |-> NULL]),
                    a, [s2.heap[a] EXCEPT !.outlives = s2.res.ptr])
                EXCEPT !.md = inc_weak(@), !.heap[o].owner = a]),
           [res |-> "Ok", ptr |-> o])

\* N::outlives after the upload of the DropItem (s2): the record is linked at
\* the head of the chain of the cell a, the handle of the cell is cloned for
\* the new N, and the strong handle that arena() returned is dropped
\* (owner records for which cell the value was added)
N_outlives_link(s2, a, o) ==
    IF s2.panic # "none" THEN s2
    ELSE IF s2.res.res # "Ok" THEN Arena_drop(s2)
    ELSE Return(
           Arena_drop(
             [Write(Write(s2, s2.res.ptr,
                          [kind |-> "DropItem", data |-> o,
                           next |-> s2.heap[a].outlives]),
                    a, [s2.heap[a] EXCEPT !.outlives = s2.res.ptr])
                EXCEPT !.md = inc_weak(@), !.heap[o].owner = a]),
           [res |-> "Ok", ptr |-> o])

\* N::outlives after the upload of the cell of the other value (s1)
N_outlives_item(s1, a) ==
    IF s1.panic # "none" THEN s1
    ELSE IF s1.res.res # "Ok" THEN Arena_drop(s1)
    ELSE N_outlives_link(
           upload_no_drop(Write(s1, s1.res.ptr, NMetadata(NULL)),
                          "DropItem", size_of_NDropItem, align_of_pointer),
           a, s1.res.ptr)

\* N::outlives on the cell at a
N_outlives(s, a, size, align) ==
    IF ~is_alive(s.md) THEN Return(s, [res |-> "ArenaIsNotAlive"])
    ELSE N_outlives_item(
           upload_no_drop([s EXCEPT !.md = inc_rc(@)], "no_drop",
                          size_of_NMetadata(size, align), align_of_NMetadata(align)),
           a)

\* N::val that does not ask whether the arena is alive
N_val_C14(s, a) == Return(s, [res |-> "Some", out |-> <<a>>])

\* N::val and N::var on the cell at a
N_val(s, a) ==
    IF is_alive(s.md) THEN Return(s, [res |-> "Some", out |-> <<a>>])
    ELSE Return(s, [res |-> "None"])

(* array_fixed.rs, array_uninit.rs: FixedArray<T>, its items in one region *)

\* dontdothis::next_item_aligned_start::<T>(size): the offset of the next item
\* behind an item of that size (called by array_fixed.rs, not in dontdothis.rs)
next_item_aligned_start(size, align) == size + padding_for(size, align)

aligned_item_size(size, align) == next_item_aligned_start(size, align)

ArrayMetadata(len, size) ==
    [kind |-> "ArrayMetadata", _len |-> len, _data |-> NULL, size |-> size]

\* the items 1..n of the iterator, item k written at (k - 1) * aligned_item_size
Items(n, size, align) ==
    [kind |-> "items",
     at |-> [off \in {(k - 1) * aligned_item_size(size, align) : k \in 1..n}
                |-> off \div aligned_item_size(size, align) + 1]]

\* FixedArray::new and with_capacity after the region of the items was
\* reserved (s3): (*metadata)._data = ptr, the items are copied (n of them),
\* the array takes its weak handle
FixedArray_store(s3, m, n, size, align) ==
    IF Failed(s3) THEN s3
    ELSE Return([Write(Write(s3, m, [s3.heap[m] EXCEPT !._data = s3.res.ptr]),
                       s3.res.ptr, Items(n, size, align))
                    EXCEPT !.md = inc_weak(@)],
                [res |-> "Ok", ptr |-> m])

\* after push_custom_drop_fn(drop_array::<T>, metadata) (s2)
FixedArray_alloc(s2, m, count, n, size, align, debug) ==
    IF Failed(s2) THEN s2
    ELSE FixedArray_store(
           alloc_no_drop_items_aligned_uninit(s2, align, count, size, debug),
           m, n, size, align)

\* after the upload of the ArrayMetadata (s1)
FixedArray_register(s1, len, count, n, size, align, debug) ==
    IF Failed(s1) THEN s1
    ELSE FixedArray_alloc(
           push_drop_item(Write(s1, s1.res.ptr, ArrayMetadata(len, size)),
                          "drop_array", s1.res.ptr),
           s1.res.ptr, count, n, size, align, debug)

\* FixedArray::new of an iterator of len items
FixedArray_new(s, len, size, align, debug) ==
    FixedArray_register(
        upload_no_drop(s, "no_drop", size_of_ArrayMetadata, align_of_pointer),
        len, len, len, size, align, debug)

\* FixedArray::with_capacity: _len is 0 and no item is written
FixedArray_with_capacity(s, capacity, size, align, debug) ==
    FixedArray_register(
        upload_no_drop(s, "no_drop", size_of_ArrayMetadata, align_of_pointer),
        0, capacity, 0, size, align, debug)

\* UninitArray::start_initializer
start_initializer(u) == [u EXCEPT !.state = "initializer", !.initialized_len = 0]

\* ArrayInitializer::push that has no test for the capacity
ArrayInitializer_push_C17(s, h, item) ==
    Return([s EXCEPT !.drops = Append(@, Dropped(s.heap[h._metadata]._data,
                                                 item, "push"))],
           [res |-> "Ok", h |-> [h EXCEPT !.initialized_len = @ + 1, !.fed = @ + 1]])

\* ArrayInitializer::push of item: the bytes of the item are copied to slot
\* initialized_len when there is room; item goes out of scope at the end of the
\* function, which runs its destructor
ArrayInitializer_push(s, h, item) ==
    LET data == s.heap[h._metadata]._data
        size == s.heap[h._metadata].size
    IN  IF h.initialized_len < h._capacity
        THEN IF data = NULL
             THEN Panic(s, "undefined behaviour: write through a null pointer")
             ELSE Return([s EXCEPT !.heap[data].at =
                                      (h.initialized_len * size :> item) @@ @,
                                   !.drops = Append(@, Dropped(data, item, "push"))],
                         [res |-> "Ok",
                          h |-> [h EXCEPT !.initialized_len = @ + 1, !.fed = @ + 1]])
        ELSE Return([s EXCEPT !.drops = Append(@, Dropped(data, item, "push"))],
                    [res |-> "Ok", h |-> [h EXCEPT !.fed = @ + 1]])

\* UninitArray::initialized_to_len
initialized_to_len(s, h, len) ==
    IF len > h._capacity THEN Panic(s, "set_len exceeds capacity")
    ELSE Return([s EXCEPT !.heap[h._metadata]._len = len],
                [res |-> "Some", h |-> [h EXCEPT !.state = "array"]])

\* ArrayInitializer::initialized
ArrayInitializer_initialized(s, h) ==
    IF h.initialized_len > h._capacity
    THEN Return(s, [res |-> "None", h |-> h])
    ELSE initialized_to_len(s, h, h.initialized_len)

\* iter_impl that reads item i one item further
iter_impl_C18(s, data, size, len) ==
    [i \in 1..len |-> IF data = NULL THEN 0 ELSE item_at(s.heap[data], size * i)]

\* FixedArray::iter_impl(data, len): item i is read at data + size_of::<T>() * i
iter_impl(s, data, size, len) ==
    [i \in 1..len |-> IF data = NULL THEN 0
                      ELSE item_at(s.heap[data], size * (i - 1))]

\* FixedArray::iter, an EmptyIfDeadIter over iter_impl: the items it yields
FixedArray_iter(s, m) ==
    IF is_alive(s.md)
    THEN Return(s, [res |-> "Ok",
                    out |-> iter_impl(s, s.heap[m]._data, s.heap[m].size,
                                      s.heap[m]._len)])
    ELSE Return(s, [res |-> "Ok", out |-> <<>>])

\* EmptyIfDeadIter::len (ExactSizeIterator) over an inner iterator that has
\* inner_len items left
EmptyIfDeadIter_len(alive, inner_len) == IF alive THEN 0 ELSE inner_len

\* FixedArray::iter().len(): the inner iterator is iter_impl(_data, _len)
FixedArray_iter_len(s, m) ==
    EmptyIfDeadIter_len(is_alive(s.md), s.heap[m]._len)

\* FixedArray::len
FixedArray_len(s, m) ==
    IF is_alive(s.md) THEN Return(s, [res |-> "Some", out |-> <<s.heap[m]._len>>])
    ELSE Return(s, [res |-> "None"])

(* list.rs: List<T>, pointers to its items in a chain of PartialSequence *)

PartialSequence_empty ==
    [kind |-> "PartialSequence", items |-> [i \in 1..MAX_ITEMS |-> NULL],
     next_list |-> NULL, used_items |-> 0]

\* PartialSequence::take_empty_slot: the slot taken (NULL for None; slot k is
\* items[k - 1]) and the sequence after it
take_empty_slot(q) ==
    IF q.used_items >= MAX_ITEMS THEN [slot |-> NULL, seq |-> q]
    ELSE [slot |-> q.used_items + 1, seq |-> [q EXCEPT !.used_items = @ + 1]]

\* List::new after the upload of the first sequence (s1)
List_new_uploaded(s1) ==
    IF Failed(s1) THEN s1
    ELSE Return([Write(s1, s1.res.ptr, PartialSequence_empty)
                    EXCEPT !.md = inc_weak(@)],
                [res |-> "Ok",
                 list |-> [_len |-> 0, _first |-> s1.res.ptr, _last |-> s1.res.ptr,
                           pushed |-> <<>>]])

\* List::new
List_new(s) ==
    List_new_uploaded(upload_auto_drop(s, size_of_PartialSequence, align_of_pointer, 0))

\* List::push after the upload of the item (s1) for the slot taken in the
\* sequence seq: *empty_slot = item_ptr; self._len += 1; the strong handle that
\* arena() returned is dropped.  l.pushed lists the items pushed so far
List_push_store(s1, l, seq, index) ==
    IF s1.panic # "none" THEN s1
    ELSE IF s1.res.res # "Ok"
    THEN Return(Arena_drop(s1), [res |-> s1.res.res, list |-> l])
    ELSE Return(Arena_drop([s1 EXCEPT !.heap[seq].items[index] = s1.res.ptr]),
                [res |-> "Ok",
                 list |-> [l EXCEPT !._len = @ + 1,
                                    !.pushed = Append(@, s1.res.ptr)]])

\* List::push after the upload of the item (s2) behind a new sequence:
\* (*self._last).take_empty_slot().unwrap(); *empty_slot = item_ptr
List_push_store_first(s2, l) ==
    IF Failed(s2) THEN List_push_store(s2, l, l._last, NULL)
    ELSE List_push_store(
           Write(s2, l._last, take_empty_slot(s2.heap[l._last]).seq),
           l, l._last, take_empty_slot(s2.heap[l._last]).slot)

\* List::push after the upload of the next sequence (s1): it is linked behind
\* the last one and becomes the last, then the item is uploaded
List_push_next(s1, l, size, align) ==
    IF s1.panic # "none" THEN s1
    ELSE IF s1.res.res # "Ok"
    THEN Return(Arena_drop(s1), [res |-> s1.res.res, list |-> l])
    ELSE List_push_store_first(
           upload_auto_drop(
             Write(Write(s1, l._last, [s1.heap[l._last] EXCEPT !.next_list = s1.res.ptr]),
                   s1.res.ptr, PartialSequence_empty),
             size, align, 0),
           [l EXCEPT !._last = s1.res.ptr])

\* List::push of an item of the given size
List_push(s, l, size, align) ==
    IF ~is_alive(s.md) THEN Return(s, [res |-> "ArenaIsNotAlive", list |-> l])
    ELSE IF take_empty_slot(s.heap[l._last]).slot # NULL
    THEN List_push_store(
           upload_auto_drop(
             Write([s EXCEPT !.md = inc_rc(@)], l._last,
                   take_empty_slot(s.heap[l._last]).seq),
             size, align, 0),
           l, l._last, take_empty_slot(s.heap[l._last]).slot)
    ELSE List_push_next(
           upload_auto_drop([s EXCEPT !.md = inc_rc(@)],
                            size_of_PartialSequence, align_of_pointer, 0),
           l, size, align)

\* ListIter::next until it returns None: the items yielded, it being
\* [current, index]
RECURSIVE ListIter_collect(_, _, _)
ListIter_item(s, it, out) ==
    IF s.heap[it.current].items[it.index + 1] = NULL THEN out
    ELSE ListIter_collect(s, [it EXCEPT !.index = @ + 1],
                          Append(out, s.heap[it.current].items[it.index + 1]))

\* an iteration that ends with the first sequence
ListIter_collect_C19(s, it, out) ==
    IF it.current = NULL \/ it.index >= MAX_ITEMS THEN out
    ELSE ListIter_item(s, it, out)

ListIter_collect(s, it, out) ==
    IF it.current = NULL THEN out
    ELSE IF it.index >= MAX_ITEMS
    THEN IF s.heap[it.current].next_list = NULL THEN out
         ELSE ListIter_item(s, [current |-> s.heap[it.current].next_list, index |-> 0],
                            out)
    ELSE ListIter_item(s, it, out)

\* List::iter
List_iter(s, l) ==
    IF is_alive(s.md)
    THEN Return(s, [res |-> "Some",
                    out |-> ListIter_collect(s, [current |-> l._first, index |-> 0],
                                             <<>>)])
    ELSE Return(s, [res |-> "None"])

\* List::empty_if_dead_iter
List_empty_if_dead_iter(s, l) ==
    IF is_alive(s.md)
    THEN Return(s, [res |-> "Ok",
                    out |-> ListIter_collect(s, [current |-> l._first, index |-> 0],
                                             <<>>)])
    ELSE Return(s, [res |-> "Ok",
                    out |-> ListIter_collect(s, [current |-> NULL, index |-> 0], <<>>)])

\* List::len that reports 0 for a drained arena
List_len_C20(s, l) ==
    Return(s, [res |-> "Ok", out |-> <<IF is_alive(s.md) THEN l._len ELSE 0>>])

\* List::len
List_len(s, l) == Return(s, [res |-> "Ok", out |-> <<l._len>>])

(* ustr.rs: UStr, the bytes of a string and a NUL in one region *)

\* UStr::from_str_unchecked after the upload of the bytes (s1): the region
\* holds value.as_bytes() followed by one 0u8, and the UStr takes a weak handle
from_str_unchecked_uploaded(s1, value) ==
    IF Failed(s1) THEN s1
    ELSE Return([Write(s1, s1.res.ptr,
                       [kind |-> "bytes", bytes |-> value, then |-> <<0>>])
                    EXCEPT !.md = inc_weak(@)],
                [res |-> "Ok", ptr |-> s1.res.ptr])

\* UStr::from_str_unchecked
from_str_unchecked(s, value, debug) ==
    from_str_unchecked_uploaded(upload_no_drop_bytes(s, value.len + 1, debug), value)

\* UStr::from_str that places the bytes without the NUL behind them
UStr_from_str_C21(s, value, debug) ==
    IF value.len > MAX_USTR THEN Return(s, [res |-> "StringIsTooLong"])
    ELSE IF value.nul THEN Return(s, [res |-> "StrContainsNul"])
    ELSE from_str_unchecked_uploaded(upload_no_drop_bytes(s, value.len, debug), value)

\* UStr::from_str
UStr_from_str(s, value, debug) ==
    IF value.len > MAX_USTR THEN Return(s, [res |-> "StringIsTooLong"])
    ELSE IF value.nul THEN Return(s, [res |-> "StrContainsNul"])
    ELSE from_str_unchecked(s, value, debug)

(* The growable array Array<T> that traits.rs collects into (with_capacity,
   push): metadata { len, capacity, ptrs } with a thunk on the metadata, ptrs a
   table of capacity pointers, every element placed on its own *)

\* with_capacity after the table was reserved (s3)
Array_store(s3, m) ==
    IF Failed(s3) THEN s3
    ELSE Return([Write(Write(s3, m, [s3.heap[m] EXCEPT !.ptrs = s3.res.ptr]),
                       s3.res.ptr, [kind |-> "table", at |-> <<>>])
                    EXCEPT !.md = inc_weak(@)],
                [res |-> "Ok", ptr |-> m])

\* with_capacity after the metadata was placed (s1): the thunk is registered
\* and the table reserved
Array_register(s1, capacity, debug) ==
    IF Failed(s1) THEN s1
    ELSE Array_store(
           alloc_no_drop_items_aligned_uninit(
              push_drop_item(
                 Write(s1, s1.res.ptr,
                       [kind |-> "GrowMetadata", len |-> 0, capacity |-> capacity,
                        ptrs |-> NULL]),
                 "drop_ptr_array", s1.res.ptr),
              align_of_pointer, capacity, align_of_pointer, debug),
           s1.res.ptr)

Array_with_capacity(s, capacity, debug) ==
    Array_register(
        upload_no_drop(s, "no_drop", size_of_ArrayMetadata + align_of_pointer,
                       align_of_pointer),
        capacity, debug)

\* push after the region of the element was reserved (s2): the element is
\* moved in place, its address stored at ptrs[len], len incremented
Array_push_store(s2, m, item) ==
    IF Failed(s2) THEN s2
    ELSE Return([Write(s2, s2.res.ptr, [kind |-> "element", item |-> item])
                    EXCEPT !.heap[s2.heap[m].ptrs].at =
                              SubSeq(@, 1, s2.heap[m].len) \o <<s2.res.ptr>>,
                           !.heap[m].len = @ + 1],
                [res |-> "Ok", ptr |-> s2.res.ptr])

\* push after the new table of 2 * capacity pointers was reserved (s1): the
\* len pointers are copied and ptrs swings to the new table
Array_push_grown(s1, m, item, size, align, debug) ==
    IF Failed(s1) THEN s1
    ELSE Array_push_store(
           alloc_no_drop_items_aligned_uninit(
              [Write(s1, s1.res.ptr,
                     [kind |-> "table",
                      at |-> SubSeq(s1.heap[s1.heap[m].ptrs].at, 1, s1.heap[m].len)])
                  EXCEPT !.heap[m].ptrs = s1.res.ptr,
                         !.heap[m].capacity = 2 * @],
              align, 1, size, debug),
           m, item)

\* push of an element of the given size
Array_push(s, m, item, size, align, debug) ==
    IF ~is_alive(s.md) THEN Return(s, [res |-> "ArenaIsNotAlive"])
    ELSE IF s.heap[m].len = s.heap[m].capacity
    THEN Array_push_grown(
           alloc_no_drop_items_aligned_uninit(s, align_of_pointer,
                                              2 * s.heap[m].capacity,
                                              align_of_pointer, debug),
           m, item, size, align, debug)
    ELSE Array_push_store(
           alloc_no_drop_items_aligned_uninit(s, align, 1, size, debug), m, item)

\* pop: len is decremented and the element at ptrs[len] moved out to the
\* caller
Array_pop(s, m) ==
    IF ~is_alive(s.md) \/ s.heap[m].len = 0 THEN Return(s, [res |-> "None"])
    ELSE Return([s EXCEPT !.heap[m].len = @ - 1],
                [res |-> "Some",
                 out |-> <<s.heap[s.heap[s.heap[m].ptrs].at[s.heap[m].len]].item>>])

----------------------------------------------------------------------------
(* The driving program: its inputs *)

Type(size, align) == [size |-> size, align |-> align]

\* a &str given to UStr::from_str: its length in bytes and whether one of its
\* bytes is zero
Str(len, nul) == [len |-> len, nul |-> nul]

\* block size of the small runs: the first block keeps 48 bytes after the first
\* DropList and the metadata
SmallBlockSize == size_of_BlockMetadata + size_of_DropList + size_of_ArenaMetadata + 48

\* the largest T a block of SmallBlockSize takes
SmallLargest == SmallBlockSize - size_of_BlockMetadata

SmallCfg ==
    [maxPlaced  |-> MaxPlaced,
     maxHandles |-> MaxHandles,
     maxArenas  |-> MaxArenas,
     pools      |-> {<<1, 1>>, <<2, 3>>, <<0, 0>>, <<0, 2>>, <<1, 0>>},
     blockSizes |-> {SmallBlockSize},
     types      |-> {Type(40, 8), Type(16, 16),
                     Type(SmallLargest, 16), Type(SmallLargest + 8, 8)},
     noDrop     |-> TRUE,
     bytes      |-> {5, SmallLargest, SmallLargest + 1, ISIZE_MIN_ABS, USIZE_MOD - 8},
     uninit     |-> {<<16, 2, 16>>, <<16, SmallLargest \div 16, 16>>,
                     <<8, 2 ^ (USIZE_BITS - 4), 16>>},
     custom     |-> TRUE,
     raw        |-> TRUE,
     cells      |-> 0,
     lens       |-> {},
     pushes     |-> 0,
     strs       |-> {},
     threads    |-> 0,
     grow       |-> {}]

\* a run with containers: cells, one fixed array, one list
DataCfg ==
    [maxPlaced  |-> MaxCalls,
     maxHandles |-> 2,
     maxArenas  |-> 1,
     pools      |-> {<<DEFAULT_MIN_FREE, DEFAULT_MAX_FREE>>},
     blockSizes |-> {SmallBlockSize},
     types      |-> {Type(8, 8)},
     noDrop     |-> FALSE,
     bytes      |-> {},
     uninit     |-> {},
     custom     |-> FALSE,
     raw        |-> TRUE,
     cells      |-> MaxCells,
     lens       |-> 0..MaxLen,
     pushes     |-> MaxLen,
     strs       |-> {},
     threads    |-> 0,
     grow       |-> {}]

\* a run that pushes to one list until it has more than two full sequences
ListCfg ==
    [maxPlaced  |-> 2 * MAX_ITEMS + ListExtra + 1,
     maxHandles |-> 1,
     maxArenas  |-> 1,
     pools      |-> {<<DEFAULT_MIN_FREE, DEFAULT_MAX_FREE>>},
     blockSizes |-> {DEFAULT_BLOCK_SIZE},
     types      |-> {Type(8, 8)},
     noDrop     |-> FALSE,
     bytes      |-> {},
     uninit     |-> {},
     custom     |-> FALSE,
     raw        |-> FALSE,
     cells      |-> 0,
     lens       |-> {},
     pushes     |-> 2 * MAX_ITEMS + ListExtra,
     strs       |-> {},
     threads    |-> 0,
     grow       |-> {}]

\* a run that fills more than one DropList node, with the default pool
ChainCfg ==
    [maxPlaced  |-> MAX_DROP_LIST_ITEMS + ChainExtra,
     maxHandles |-> 1,
     maxArenas  |-> 1,
     pools      |-> {<<DEFAULT_MIN_FREE, DEFAULT_MAX_FREE>>},
     blockSizes |-> {DEFAULT_BLOCK_SIZE},
     types      |-> {Type(64, 8)},
     noDrop     |-> FALSE,
     bytes      |-> {},
     uninit     |-> {},
     custom     |-> FALSE,
     raw        |-> TRUE,
     cells      |-> 0,
     lens       |-> {},
     pushes     |-> 0,
     strs       |-> {},
     threads    |-> 0,
     grow       |-> {}]

\* a run of several threads, each with a clone of the Memory handle
ThreadCfg ==
    [DataCfg EXCEPT !.pools = {<<1, 1>>, <<1, 2>>, <<2, 3>>},
                    !.threads = MaxThreads]

\* a pool whose blocks are too small for the first DropList, or for the
\* metadata behind it
TinyCfg ==
    [DataCfg EXCEPT !.pools = {<<1, 1>>, <<2, 3>>},
                    !.blockSizes = {size_of_BlockMetadata + size_of_DropList - 8,
                                    size_of_BlockMetadata + size_of_DropList + 8}]

\* a run with one fixed array whose items do not fit a block
BigArrayCfg ==
    [DataCfg EXCEPT !.maxPlaced = 2, !.cells = 0, !.pushes = 0,
                    !.lens = {2, SmallLargest \div 8 + 1}]

\* a run with one list whose item type is larger than a block
BigItemCfg ==
    [DataCfg EXCEPT !.maxPlaced = 2, !.raw = FALSE, !.cells = 0, !.lens = {},
                    !.pushes = 1, !.types = {Type(SmallLargest + 8, 8)}]

\* a run with one string: with a NUL, placed, too long for a block, too long
StrCfg ==
    [DataCfg EXCEPT !.cells = 0, !.lens = {}, !.pushes = 0,
                    !.strs = {Str(5, TRUE), Str(48, FALSE), Str(MAX_USTR, FALSE),
                              Str(MAX_USTR + 1, TRUE)}]

\* a run with one growable array that grows twice
GrowCfg ==
    [DataCfg EXCEPT !.maxPlaced = MaxCalls + 2, !.raw = FALSE, !.cells = 0,
                    !.lens = {}, !.pushes = 0, !.grow = {1, 2}]

\* the program holds no container
NoHandles ==
    [cells |-> <<>>, arrays |-> <<>>, lists |-> <<>>, strs |-> <<>>, grown |-> <<>>]

InitWith(c) ==
    /\ cfg = c
    /\ \E pc \in c.pools, size \in c.blockSizes :
          pool = MemoryBuilder_build(pc[1], pc[2], size)
    /\ md = [alloc |-> "none", id |-> 0, last_block |-> NULL,
             first_drop_list |-> NULL, last_drop_list |-> NULL,
             strong_rc |-> 0, rc |-> 0]
    /\ blocks = <<>>
    /\ lists = <<>>
    /\ placed = <<>>
    /\ handles = [strong |-> 0, weak |-> 0]
    /\ log = <<>>
    /\ stats = [drop_chains |-> 0, reclaims |-> 0, memory_drops |-> 0,
                registered |-> 0, taken |-> {}, before |-> pool, executed |-> 0]
    /\ ret = [op |-> "Memory::build", res |-> "Ok", req |-> 0, align |-> 1,
              out |-> <<>>]
    /\ panic = "none"
    /\ calls = 0
    /\ heap = <<>>
    /\ drops = <<>>
    /\ owned = NoHandles
    /\ threads = [t \in 1..c.threads |-> [chain |-> <<>>, returning |-> FALSE]]

Init ==
    \/ InitWith(SmallCfg) \/ InitWith(DataCfg) \/ InitWith(StrCfg)
    \/ InitWith(GrowCfg) \/ InitWith(TinyCfg) \/ InitWith(BigArrayCfg)
    \/ InitWith(BigItemCfg)

InitChain == Init \/ InitWith(ChainCfg) \/ InitWith(ListCfg)

\* a call of the program: its name and, for a placement, the size and the
\* alignment it asks for
Call(op) == [op |-> op, req |-> 0, align |-> 1]

Place(op, req, align) == [op |-> op, req |-> req, align |-> align]

\* the state s becomes the next state; c is the call that was made, h and o
\* the handles the program holds after it
CommitAll(s, c, h, o) ==
    /\ pool' = s.pool
    /\ md' = s.md
    /\ blocks' = s.blocks
    /\ lists' = s.lists
    /\ placed' = s.placed
    /\ log' = s.log
    /\ stats' = s.stats
    /\ panic' = s.panic
    /\ heap' = s.heap
    /\ drops' = s.drops
    /\ handles' = h
    /\ owned' = o
    /\ threads' = threads
    /\ ret' = [op |-> c.op, res |-> s.res.res, req |-> c.req, align |-> c.align,
               out |-> IF "out" \in DOMAIN s.res THEN s.res.out ELSE <<>>]
    /\ cfg' = cfg
    /\ calls' = IF /\ c.op # "Arena::new"
                   /\ Len(s.placed) + s.stats.registered > Len(placed) + stats.registered
                THEN calls + 1 ELSE calls

Commit(s, c, h) == CommitAll(s, c, h, owned)

Running == panic = "none"

\* the pool behind the program's Memory handle has not been dropped; a call
\* through the handle after that is undefined behaviour, which ends the run
PoolAlive == pool.arc > 0

Undefined(s) == Panic(s, "undefined behaviour: Memory used after its pool was dropped")

HasArena == Running /\ handles.strong > 0

HasWeak == Running /\ handles.weak > 0

\* the program places or registers at most cfg.maxPlaced times
MayPlace == calls < cfg.maxPlaced

\* the value was moved into the arena by the call that returned s
Moved(s) == Len(s.placed) > Len(placed)

\* value: T is owned by the call: a call that returns without having stored it
\* drops it, and with it the weak WeakArena handles the value owns
drop_value(s, moved, weak) ==
    IF moved \/ s.panic # "none" THEN s ELSE drop_weak_fields(s, weak)

----------------------------------------------------------------------------
(* The calls of the program *)

\* (a program whose Arena::new has never succeeded gives up once the pool
\* has allocated MaxIds buffers)
ArenaNew ==
    /\ Running
    /\ md.alloc # "live"
    /\ md.id < cfg.maxArenas
    /\ ~(md.alloc = "none" /\ pool.next_id > MaxIds)
    /\ LET s == IF PoolAlive THEN Arena_new(St) ELSE Undefined(St)
       IN  Commit(s, Call("Arena::new"),
                  IF s.res.res = "Ok" THEN [strong |-> 1, weak |-> 0] ELSE handles)

ArenaClone ==
    /\ HasArena
    /\ md.rc < cfg.maxHandles
    /\ Commit(Return([St EXCEPT !.md = inc_rc(@)], [res |-> "Ok"]), Call("Arena::clone"),
              [handles EXCEPT !.strong = @ + 1])

ToWeakArena ==
    /\ HasArena
    /\ md.rc < cfg.maxHandles
    /\ Commit(Return([St EXCEPT !.md = inc_weak(@)], [res |-> "Ok"]),
              Call("Arena::to_weak_arena"), [handles EXCEPT !.weak = @ + 1])

WeakArenaClone ==
    /\ HasWeak
    /\ md.rc < cfg.maxHandles
    /\ Commit(Return([St EXCEPT !.md = inc_weak(@)], [res |-> "Ok"]),
              Call("WeakArena::clone"), [handles EXCEPT !.weak = @ + 1])

\* WeakArena::arena
WeakArena_arena(s) ==
    IF is_alive(s.md)
    THEN Return([s EXCEPT !.md = inc_rc(@)], [res |-> "Some"])
    ELSE Return(s, [res |-> "None"])

WeakArenaUpgrade ==
    /\ HasWeak
    /\ md.rc < cfg.maxHandles
    /\ LET s == WeakArena_arena(St)
       IN  Commit(s, Call("WeakArena::arena"),
                  IF s.res.res = "Some" THEN [handles EXCEPT !.strong = @ + 1]
                  ELSE handles)

DropArena ==
    /\ HasArena
    /\ Commit(Return(Arena_drop(St), [res |-> "Ok"]), Call("drop(Arena)"),
              [handles EXCEPT !.strong = @ - 1])

DropWeakArena ==
    /\ HasWeak
    /\ Commit(Return(WeakArena_drop(St), [res |-> "Ok"]), Call("drop(WeakArena)"),
              [handles EXCEPT !.weak = @ - 1])

ArenaUploadAutoDrop ==
    /\ HasArena /\ MayPlace /\ cfg.raw
    /\ \E t \in cfg.types, w \in 0..1 :
          /\ w <= handles.weak
          /\ LET s == upload_auto_drop(St, t.size, t.align, w)
             IN  Commit(drop_value(s, Moved(s), w),
                        Place("Arena::upload_auto_drop", t.size, t.align),
                        [handles EXCEPT !.weak = @ - w])

ArenaUploadNoDrop ==
    /\ HasArena /\ MayPlace /\ cfg.noDrop
    /\ \E t \in cfg.types :
          Commit(upload_no_drop(St, "no_drop", t.size, t.align),
                 Place("Arena::upload_no_drop", t.size, t.align), handles)

ArenaUploadNoDropBytes ==
    /\ HasArena /\ MayPlace
    /\ \E len \in cfg.bytes, debug \in BOOLEAN :
          Commit(upload_no_drop_bytes(St, len, debug),
                 Place("Arena::upload_no_drop_bytes", len, 1), handles)

ArenaAllocNoDropItemsAlignedUninit ==
    /\ HasArena /\ MayPlace
    /\ \E u \in cfg.uninit, debug \in BOOLEAN :
          Commit(alloc_no_drop_items_aligned_uninit(St, u[1], u[2], u[3], debug),
                 Place("Arena::alloc_no_drop_items_aligned_uninit", u[2] * u[3], u[1]),
                 handles)

\* the data pointer is one that a placement of the program returned
ArenaPushCustomDropFn ==
    /\ HasArena /\ MayPlace /\ cfg.custom
    /\ \E d \in {i \in 1..Len(placed) :
                   placed[i].kind \in {"auto_drop", "no_drop", "bytes", "uninit"}} :
          Commit(push_custom_drop_fn(St, d), Call("Arena::push_custom_drop_fn"), handles)

\* WeakArena::upload_auto_drop
Weak_upload_auto_drop(s, size, align, weak) ==
    IF is_alive(s.md) THEN upload_auto_drop(s, size, align, weak)
    ELSE Return(s, [res |-> "ArenaIsNotAlive"])

\* WeakArena::upload_no_drop that registers a destructor thunk for the value
Weak_upload_no_drop_C12(s, size, align) ==
    Weak_upload_auto_drop(s, size, align, 0)

\* WeakArena::upload_no_drop
Weak_upload_no_drop(s, size, align) ==
    IF is_alive(s.md) THEN upload_no_drop(s, "no_drop", size, align)
    ELSE Return(s, [res |-> "ArenaIsNotAlive"])

\* WeakArena::upload_no_drop_bytes without the is_alive test
Weak_upload_no_drop_bytes_C5(s, len, debug) == upload_no_drop_bytes(s, len, debug)

\* WeakArena::upload_no_drop_bytes
Weak_upload_no_drop_bytes(s, len, debug) ==
    IF is_alive(s.md) THEN upload_no_drop_bytes(s, len, debug)
    ELSE Return(s, [res |-> "ArenaIsNotAlive"])

WeakUploadAutoDrop ==
    /\ HasWeak /\ MayPlace /\ cfg.raw
    /\ \E t \in cfg.types, w \in 0..1 :
          /\ w < handles.weak
          /\ LET s == Weak_upload_auto_drop(St, t.size, t.align, w)
             IN  Commit(drop_value(s, Moved(s), w),
                        Place("WeakArena::upload_auto_drop", t.size, t.align),
                        [handles EXCEPT !.weak = @ - w])

WeakUploadNoDrop ==
    /\ HasWeak /\ MayPlace /\ cfg.noDrop
    /\ \E t \in cfg.types :
          Commit(Weak_upload_no_drop(St, t.size, t.align),
                 Place("WeakArena::upload_no_drop", t.size, t.align), handles)

WeakUploadNoDropBytes ==
    /\ HasWeak /\ MayPlace
    /\ \E len \in cfg.bytes, debug \in BOOLEAN :
          Commit(Weak_upload_no_drop_bytes(St, len, debug),
                 Place("WeakArena::upload_no_drop_bytes", len, 1), handles)

\* Memory::cleanup
MemoryCleanup ==
    /\ Running
    /\ LET c == cleanup(pool, 0)
       IN  Commit(IF PoolAlive
                  THEN Return([St EXCEPT !.pool = c.pool],
                              [res |-> "Ok", out |-> <<c.size>>])
                  ELSE Undefined(St),
                  Call("Memory::cleanup"), handles)

\* N::new
NNew ==
    /\ HasArena /\ MayPlace
    /\ Len(owned.cells) < cfg.cells
    /\ \E t \in cfg.types :
          LET s == N_new(St, t.size, t.align)
          IN  CommitAll(s, Call("N::new"), handles,
                        IF Failed(s) THEN owned
                        ELSE [owned EXCEPT !.cells = Append(@, s.res.ptr)])

\* N::outlives on one of the cells of the program
NOutlives ==
    /\ Running /\ MayPlace
    /\ Len(owned.cells) < cfg.cells
    /\ \E c \in DOMAIN owned.cells, t \in cfg.types :
          LET s == N_outlives(St, owned.cells[c], t.size, t.align)
          IN  CommitAll(s, Call("N::outlives"), handles,
                        IF Failed(s) THEN owned
                        ELSE [owned EXCEPT !.cells = Append(@, s.res.ptr)])

\* N::val, N::var
NVal ==
    /\ Running
    /\ \E c \in DOMAIN owned.cells, op \in {"N::val", "N::var"} :
          Commit(N_val(St, owned.cells[c]), Call(op), handles)

\* the handle of an array the program holds: an UninitArray, an
\* ArrayInitializer or a FixedArray (state), made by FixedArray::new or by
\* with_capacity; fed counts the items given to the initializer
ArrayHandle(made, state, capacity, metadata) ==
    [made |-> made, state |-> state, _capacity |-> capacity,
     _metadata |-> metadata, initialized_len |-> 0, fed |-> 0]

\* FixedArray::new of an iterator that yields the items 1..len
FixedArrayNew ==
    /\ HasArena /\ MayPlace
    /\ owned.arrays = <<>>
    /\ \E len \in cfg.lens, t \in cfg.types, debug \in BOOLEAN :
          LET s == FixedArray_new(St, len, t.size, t.align, debug)
          IN  CommitAll(s, Call("FixedArray::new"), handles,
                        IF Failed(s) THEN owned
                        ELSE [owned EXCEPT !.arrays =
                                 <<ArrayHandle("new", "array", len, s.res.ptr)>>])

\* FixedArray::with_capacity
FixedArrayWithCapacity ==
    /\ HasArena /\ MayPlace
    /\ owned.arrays = <<>>
    /\ \E capacity \in cfg.lens, t \in cfg.types, debug \in BOOLEAN :
          LET s == FixedArray_with_capacity(St, capacity, t.size, t.align, debug)
          IN  CommitAll(s, Call("FixedArray::with_capacity"), handles,
                        IF Failed(s) THEN owned
                        ELSE [owned EXCEPT !.arrays =
                                 <<ArrayHandle("with_capacity", "uninit", capacity,
                                               s.res.ptr)>>])

\* UninitArray::start_initializer
UninitArrayStartInitializer ==
    /\ Running
    /\ owned.arrays # <<>>
    /\ owned.arrays[1].state = "uninit"
    /\ CommitAll(Return(St, [res |-> "Ok"]), Call("UninitArray::start_initializer"),
                 handles, [owned EXCEPT !.arrays[1] = start_initializer(@)])

\* ArrayInitializer::push; the program feeds at most one item more than the
\* capacity
ArrayInitializerPush ==
    /\ Running
    /\ owned.arrays # <<>>
    /\ owned.arrays[1].state = "initializer"
    /\ owned.arrays[1].fed <= owned.arrays[1]._capacity
    /\ LET s == ArrayInitializer_push(St, owned.arrays[1], owned.arrays[1].fed + 1)
       IN  CommitAll(s, Call("ArrayInitializer::push"), handles,
                     IF s.panic # "none" THEN owned
                     ELSE [owned EXCEPT !.arrays[1] = s.res.h])

\* ArrayInitializer::initialized
ArrayInitializerInitialized ==
    /\ Running
    /\ owned.arrays # <<>>
    /\ owned.arrays[1].state = "initializer"
    /\ LET s == ArrayInitializer_initialized(St, owned.arrays[1])
       IN  CommitAll(s, Call("ArrayInitializer::initialized"), handles,
                     IF s.panic # "none" THEN owned
                     ELSE [owned EXCEPT !.arrays[1] = s.res.h])

\* FixedArray::iter, FixedArray::len
FixedArrayRead ==
    /\ Running
    /\ owned.arrays # <<>>
    /\ owned.arrays[1].state = "array"
    /\ \/ Commit(FixedArray_iter(St, owned.arrays[1]._metadata),
                  Call("FixedArray::iter"), handles)
       \/ Commit(FixedArray_len(St, owned.arrays[1]._metadata),
                  Call("FixedArray::len"), handles)

\* List::new
ListNew ==
    /\ HasArena /\ MayPlace
    /\ cfg.pushes > 0
    /\ owned.lists = <<>>
    /\ LET s == List_new(St)
       IN  CommitAll(s, Call("List::new"), handles,
                     IF Failed(s) THEN owned
                     ELSE [owned EXCEPT !.lists = <<s.res.list>>])

\* List::push
ListPush ==
    /\ Running /\ MayPlace
    /\ owned.lists # <<>>
    /\ Len(owned.lists[1].pushed) < cfg.pushes
    /\ \E t \in cfg.types :
          LET s == List_push(St, owned.lists[1], t.size, t.align)
          IN  CommitAll(s, Call("List::push"), handles,
                        IF s.panic # "none" THEN owned
                        ELSE [owned EXCEPT !.lists[1] = s.res.list])

\* Array::with_capacity; the handle counts the elements pushed and lists
\* those the array holds
ArrayWithCapacity ==
    /\ HasArena /\ MayPlace
    /\ owned.grown = <<>>
    /\ \E capacity \in cfg.grow, debug \in BOOLEAN :
          LET s == Array_with_capacity(St, capacity, debug)
          IN  CommitAll(s, Call("Array::with_capacity"), handles,
                        IF Failed(s) THEN owned
                        ELSE [owned EXCEPT !.grown =
                                 <<[_metadata |-> s.res.ptr, pushed |-> 0,
                                    popped |-> <<>>, held |-> <<>>]>>])

\* Array::push of the next element
ArrayPush ==
    /\ Running /\ MayPlace
    /\ owned.grown # <<>>
    /\ \E t \in cfg.types, debug \in BOOLEAN :
          LET s == Array_push(St, owned.grown[1]._metadata,
                              owned.grown[1].pushed + 1, t.size, t.align, debug)
          IN  CommitAll(s, Call("Array::push"), handles,
                        IF Failed(s) THEN owned
                        ELSE [owned EXCEPT !.grown[1].pushed = @ + 1,
                                           !.grown[1].held = Append(@, s.res.ptr)])

\* Array::pop
ArrayPop ==
    /\ Running
    /\ owned.grown # <<>>
    /\ LET s == Array_pop(St, owned.grown[1]._metadata)
       IN  CommitAll(s, Call("Array::pop"), handles,
                     IF s.res.res # "Some" THEN owned
                     ELSE [owned EXCEPT
                             !.grown[1].popped = Append(@, s.res.out[1]),
                             !.grown[1].held = SubSeq(@, 1, Len(@) - 1)])

\* UStr::from_str
UStrFromStr ==
    /\ HasArena /\ MayPlace
    /\ owned.strs = <<>>
    /\ \E value \in cfg.strs, debug \in BOOLEAN :
          LET s == UStr_from_str(St, value, debug)
          IN  CommitAll(s, Place("UStr::from_str", value.len, 1), handles,
                        IF Failed(s) THEN owned
                        ELSE [owned EXCEPT !.strs = <<s.res.ptr>>])

\* a UStr is dropped, and with it the weak handle it holds
DropUStr ==
    /\ Running
    /\ owned.strs # <<>>
    /\ CommitAll(Return(WeakArena_drop(St), [res |-> "Ok"]), Call("drop(UStr)"),
                 handles, [owned EXCEPT !.strs = <<>>])

\* List::iter, List::empty_if_dead_iter, List::len
ListRead ==
    /\ Running
    /\ owned.lists # <<>>
    /\ \/ Commit(List_iter(St, owned.lists[1]), Call("List::iter"), handles)
       \/ Commit(List_empty_if_dead_iter(St, owned.lists[1]),
                  Call("List::empty_if_dead_iter"), handles)
       \/ Commit(List_len(St, owned.lists[1]), Call("List::len"), handles)

Next ==
    \/ ArenaNew
    \/ ArenaClone
    \/ ToWeakArena
    \/ WeakArenaClone
    \/ WeakArenaUpgrade
    \/ DropArena
    \/ DropWeakArena
    \/ ArenaUploadAutoDrop
    \/ ArenaUploadNoDrop
    \/ ArenaUploadNoDropBytes
    \/ ArenaAllocNoDropItemsAlignedUninit
    \/ ArenaPushCustomDropFn
    \/ WeakUploadAutoDrop
    \/ WeakUploadNoDrop
    \/ WeakUploadNoDropBytes
    \/ MemoryCleanup
    \/ NNew
    \/ NOutlives
    \/ NVal
    \/ FixedArrayNew
    \/ FixedArrayWithCapacity
    \/ UninitArrayStartInitializer
    \/ ArrayInitializerPush
    \/ ArrayInitializerInitialized
    \/ FixedArrayRead
    \/ ListNew
    \/ ListPush
    \/ ListRead
    \/ UStrFromStr
    \/ DropUStr
    \/ ArrayWithCapacity
    \/ ArrayPush
    \/ ArrayPop

Spec == Init /\ [][Next]_vars

SpecChain == InitChain /\ [][Next]_vars

----------------------------------------------------------------------------
(* Several threads, each creating, filling and dropping its own arenas on a
   clone of one Memory.  Every call of take_block, return_block and cleanup
   runs under the mutex of the pool, so each is one step; the steps of the
   threads interleave freely.  What a thread does to its own arena between
   two calls of the pool is local to the thread *)

InitThreads == InitWith(ThreadCfg)

\* the pool after a step of a thread; a failed expect in take_block panics
ThreadStep(p, failed) ==
    /\ pool' = p
    /\ panic' = IF failed THEN "no allocated memory" ELSE panic
    /\ UNCHANGED <<cfg, md, blocks, lists, placed, handles, log, stats, ret,
                   calls, heap, drops, owned>>

\* memory.take_block() of Arena::new (which clones the handle first) or of
\* next_block: the block becomes the last block of the arena of thread t
ThreadTakeBlock(t) ==
    /\ Running
    /\ ~threads[t].returning
    /\ Len(threads[t].chain) < MaxBlocks
    /\ LET r == take_block(pool)
       IN  /\ r.pool.next_id <= MaxIds + 1
           /\ threads' = [threads EXCEPT ![t].chain =
                             IF r.block = NULL THEN @ ELSE Append(@, r.block)]
           /\ ThreadStep(IF threads[t].chain = <<>> THEN Memory_clone(r.pool)
                         ELSE r.pool,
                         r.block = NULL)

\* one round of the loop of reclaim_memory in the drop of the last handle of
\* the arena of thread t: self.memory.return_block(data) for the last block
\* of the chain; after the first block of the chain was returned the copy of
\* the metadata is dropped, and with it the clone of the handle
ThreadReturnBlock(t) ==
    /\ Running
    /\ threads[t].chain # <<>>
    /\ LET chain == threads[t].chain
           p == return_block(pool, chain[Len(chain)])
       IN  /\ threads' = [threads EXCEPT ![t] =
                             [chain |-> SubSeq(chain, 1, Len(chain) - 1),
                              returning |-> Len(chain) > 1]]
           /\ ThreadStep(IF Len(chain) = 1 THEN Memory_drop(p) ELSE p, FALSE)

\* Memory::cleanup by one of the threads
ThreadCleanup ==
    /\ Running
    /\ threads # <<>>
    /\ threads' = threads
    /\ ThreadStep(cleanup(pool, 0).pool, FALSE)

NextThreads ==
    \/ \E t \in DOMAIN threads : ThreadTakeBlock(t)
    \/ \E t \in DOMAIN threads : ThreadReturnBlock(t)
    \/ ThreadCleanup

SpecThreads == InitThreads /\ [][NextThreads]_vars

----------------------------------------------------------------------------
(* Properties *)

Range(f) == {f[i] : i \in DOMAIN f}

\* how often x occurs in the sequence f
Count(f, x) == Cardinality({i \in DOMAIN f : f[i] = x})

\* the values placed with upload_auto_drop (indices of placed)
AutoDropped == {i \in DOMAIN placed : placed[i].kind = "auto_drop"}

\* how often the destructor of the value at placed[i] has run
Destroyed(i) ==
    Cardinality({k \in DOMAIN log : log[k].fun = "drop" /\ log[k].data = i})

\* an arena has been created and the run has not panicked
Created == md.alloc # "none" /\ panic = "none"

DropOps == {"drop(Arena)", "drop(WeakArena)"}

WeakUploadOps ==
    {"WeakArena::upload_auto_drop", "WeakArena::upload_no_drop",
     "WeakArena::upload_no_drop_bytes"}

UploadOps ==
    WeakUploadOps \cup
    {"Arena::upload_auto_drop", "Arena::upload_no_drop",
     "Arena::upload_no_drop_bytes", "Arena::alloc_no_drop_items_aligned_uninit"}

\* what a call on a drained or freed arena must leave alone
ArenaState == <<pool, md, blocks, lists, placed, log, stats, handles, panic>>

\* the call left the arena as it was, but for the weak handles that the value
\* it rejected owned and dropped with it
ArenaLeftAlone ==
    /\ UNCHANGED <<pool, blocks, lists, placed, log, stats, panic, heap, drops>>
    /\ handles'.strong = handles.strong
    /\ md' = [md EXCEPT !.rc = @ - (handles.weak - handles'.weak)]

(* C1: every value placed with upload_auto_drop has its destructor invoked
   exactly once: no destructor has run and the drop chain has not run while
   strong_rc > 0, and from the step that takes strong_rc to 0 on the chain has
   run exactly once and every such value has been destroyed exactly once. *)
C1_DestructorExactlyOnce ==
    Created =>
       /\ md.strong_rc > 0 =>
             /\ stats.drop_chains = 0
             /\ log = <<>>
       /\ md.strong_rc = 0 =>
             /\ stats.drop_chains = 1
             /\ \A i \in AutoDropped : Destroyed(i) = 1
             /\ md.first_drop_list = NULL /\ md.last_drop_list = NULL

\* the last strong handle was dropped while weak handles remain, and the two
\* values placed with upload_auto_drop have been destroyed
C1_Witness ==
    /\ Created
    /\ ret.op = "drop(Arena)"
    /\ md.strong_rc = 0 /\ md.rc > 0
    /\ Cardinality(AutoDropped) = 2
    /\ \A i \in AutoDropped : Destroyed(i) = 1

(* C2: the thunks are executed in the order they were registered, which for
   values placed with upload_auto_drop is the order of the placements: once
   the drop chain has run, the k-th thunk executed is the k-th thunk
   registered, for every thunk, also when the thunks fill more than one
   DropList node and the values lie in more than one block. *)
C2_RegistrationOrder ==
    (Created /\ md.strong_rc = 0) =>
       /\ Len(log) = stats.registered
       /\ \A k \in DOMAIN log : log[k].id = k
       /\ \A k \in 2..Len(log) :
             (log[k].fun = "drop" /\ log[k - 1].fun = "drop")
                => log[k - 1].data < log[k].data

\* the chain of more than MAX_DROP_LIST_ITEMS thunks has run: it had two nodes
\* and the values lie in two blocks
C2_Witness ==
    /\ Created /\ md.strong_rc = 0
    /\ ret.op = "drop(Arena)"
    /\ Len(log) > MAX_DROP_LIST_ITEMS
    /\ Len(lists) >= 2
    /\ placed[Len(placed)].block # placed[1].block

(* C3: after total_rc has reached 0 every block the arena took from the pool
   is in the free list of the pool exactly once and the arena holds none
   (stated for the state the drop of the last handle leaves, before the
   program calls Memory::cleanup or creates the next arena). *)
C3_BlocksReturned ==
    (Created /\ md.rc = 0 /\ ret.op \in DropOps) =>
       /\ md.last_block = NULL
       /\ blocks = <<>>
       /\ \A b \in stats.taken : Count(pool.free_blocks, b) = 1

(* C4: while a handle of the arena is live (total_rc > 0), also when strong_rc
   is 0 and only weak handles remain, none of the blocks the arena took is in
   the free list of the pool or deallocated, and the arena still holds every
   block a placement lies in. *)
C4_BlocksHeldWhileReferenced ==
    (Created /\ md.rc > 0) =>
       /\ \A b \in stats.taken :
             /\ b \notin Range(pool.free_blocks)
             /\ b \notin pool.dropped
             /\ b \in DOMAIN blocks
       /\ \A i \in DOMAIN placed : placed[i].block \in stats.taken

\* the arena is drained, a weak handle is left and bytes were placed without a
\* destructor
C4_Witness ==
    /\ Created
    /\ md.strong_rc = 0 /\ md.rc > 0
    /\ handles.weak > 0
    /\ \E i \in DOMAIN placed : placed[i].kind = "bytes" /\ placed[i].size = 5
    /\ Cardinality(stats.taken) = 2

(* C5: a placement through a weak handle of an arena whose strong_rc is 0
   returns ArenaIsNotAlive and leaves the blocks, the pool, the drop chain and
   strong_rc as they were; total_rc falls by the number of weak handles that
   the rejected value owns, because the call drops the value, and by nothing
   else. *)
C5_WeakPlacementAfterDrain ==
    [][(ret'.op \in WeakUploadOps /\ md.alloc = "live" /\ md.strong_rc = 0)
          => (/\ ret'.res = "ArenaIsNotAlive"
              /\ ArenaLeftAlone
              /\ md'.rc > 0)]_vars

(* C5 as stated: a placement through a weak handle of an arena whose
   strong_rc is 0 returns ArenaIsNotAlive and changes nothing, both counts
   included. *)
C5_ChangesNothing ==
    [][(ret'.op \in WeakUploadOps /\ md.alloc = "live" /\ md.strong_rc = 0)
          => (ret'.res = "ArenaIsNotAlive" /\ UNCHANGED ArenaState)]_vars

\* a placement of a value with a destructor has just been refused through a
\* weak handle, after the value before it was destroyed by the drop chain
C5_Witness ==
    /\ ret.op = "WeakArena::upload_auto_drop"
    /\ ret.res = "ArenaIsNotAlive"
    /\ md.alloc = "live" /\ md.strong_rc = 0
    /\ Len(log) = 1

(* C6: WeakArena::arena returns a strong handle exactly when strong_rc > 0,
   and strong_rc of an arena that has reached 0 stays 0. *)
C6_UpgradeIffAlive ==
    [][/\ (ret'.op = "WeakArena::arena" /\ panic' = "none")
            => /\ (ret'.res = "Some") = (md.strong_rc > 0)
               /\ ret'.res \in {"Some", "None"}
               /\ ret'.res = "Some" => md'.strong_rc = md.strong_rc + 1
       /\ (md.alloc # "none" /\ md.strong_rc = 0 /\ md'.id = md.id)
            => md'.strong_rc = 0]_vars

\* an upgrade has been refused after the last strong handle went
C6_Witness ==
    /\ ret.op = "WeakArena::arena"
    /\ ret.res = "None"
    /\ md.strong_rc = 0 /\ md.rc > 0

(* C7: 0 <= strong_rc <= total_rc in every reachable state of an arena. *)
C7_CountsOrdered ==
    md.alloc # "none" => (0 <= md.strong_rc /\ md.strong_rc <= md.rc)

\* handles of both kinds were created and dropped: an upgrade made a second
\* strong handle next to a weak one
C7_Witness ==
    /\ ret.op = "WeakArena::arena" /\ ret.res = "Some"
    /\ md.strong_rc = 2 /\ md.rc = 3

\* the arena accepts placements: it is allocated and a strong handle is live
Accepting == md.alloc = "live" /\ md.strong_rc > 0

\* size bytes at alignment align fit into what is left of the block
Fits(h, size, align) ==
    h.next_item_offset + padding_for(h.next_item_offset, align) + size <= h.len

(* C8: a placement primitive asked for more bytes than largest_item_size of
   the current last block returns ItemDoesNotFit and leaves the arena as it
   was: same last block and cursor, no block taken from the pool, no thunk
   registered, strong_rc unchanged (and total_rc too, the handles owned by the
   rejected value aside). *)
C8_TooBigIsRefused ==
    [][(/\ ret'.op \in UploadOps
        /\ Accepting
        /\ ret'.req > largest_item_size(blocks[md.last_block]))
          => (ret'.res = "ItemDoesNotFit" /\ ArenaLeftAlone)]_vars

(* C9: a placement that does not fit into what is left of the last block but
   whose size is at most largest_item_size takes exactly one fresh block from
   the pool, links it as the new last block with the prior last block as its
   previous block, and succeeds in the fresh block, for every alignment. *)
C9_RetryInFreshBlockSucceeds ==
    [][(/\ ret'.op \in UploadOps
        /\ Accepting
        /\ ret'.req <= largest_item_size(blocks[md.last_block])
        /\ ~Fits(blocks[md.last_block], ret'.req, ret'.align))
          => (/\ ret'.res = "Ok" /\ panic' = "none"
              /\ md'.last_block \notin DOMAIN blocks
              /\ DOMAIN blocks' = DOMAIN blocks \cup {md'.last_block}
              /\ stats'.taken = stats.taken \cup {md'.last_block}
              /\ blocks'[md'.last_block].previous_block = md.last_block
              /\ Len(placed') > Len(placed)
              /\ placed'[Len(placed) + 1].block = md'.last_block)]_vars

(* C10: every successful placement starts at an offset that is a multiple of
   the alignment a, the offset is cursor + ((a - cursor mod a) mod a) for the
   cursor before the placement, and the cursor after it is offset + size. *)
C10_AlignedBump ==
    \A i \in DOMAIN placed :
       /\ placed[i].start % placed[i].align = 0
       /\ placed[i].start
             = placed[i].before + padding_for(placed[i].before, placed[i].align)
       /\ placed[i].after = placed[i].start + placed[i].size

\* the regions a and b share a byte
Overlap(a, b) ==
    /\ a.block = b.block
    /\ a.start < b.start + b.size
    /\ b.start < a.start + a.size

\* the region lies behind the header of its block (whose length is the block
\* size of the pool) and ends inside the block
InsideBlock(a) ==
    /\ a.start >= size_of_BlockMetadata
    /\ a.start + a.size <= pool.new_block_size

(* C11: the byte regions handed out by the successful placements of an arena
   are pairwise disjoint, lie behind the block header and end inside their
   block, and a later placement or a new block never changes the block or
   the start of an earlier region. *)
C11_RegionsDisjoint ==
    /\ [](\A i \in DOMAIN placed :
             /\ InsideBlock(placed[i])
             /\ \A j \in DOMAIN placed : i # j => ~Overlap(placed[i], placed[j]))
    /\ [][md'.id = md.id =>
             \A i \in DOMAIN placed :
                /\ i \in DOMAIN placed'
                /\ placed'[i].block = placed[i].block
                /\ placed'[i].start = placed[i].start]_vars

NoDropOps ==
    {"Arena::upload_no_drop", "Arena::upload_no_drop_bytes",
     "Arena::alloc_no_drop_items_aligned_uninit",
     "WeakArena::upload_no_drop", "WeakArena::upload_no_drop_bytes"}

\* the thunks waiting in the drop chain
Waiting ==
    UNION {Range(lists[l].items) : l \in DOMAIN lists} \ {None}

(* C12: a placement without destructor (upload_no_drop, upload_no_drop_bytes,
   alloc_no_drop_items_aligned_uninit, through either kind of handle)
   registers no thunk and leaves the drop chain as it was, and the destructor
   thunks of the chain, waiting or executed, point only at values placed with
   upload_auto_drop: bytes, uninitialized regions, values placed without
   destructor and drop-list nodes have none. *)
C12_NoThunkWithoutDestructor ==
    /\ [](\A t \in Waiting \cup Range(log) :
             t.fun = "drop" => placed[t.data].kind = "auto_drop")
    /\ [][ret'.op \in NoDropOps =>
             /\ stats'.registered = stats.registered
             /\ log' = log
             /\ \A l \in DOMAIN lists : lists'[l].items = lists[l].items]_vars

\* the arena was drained after bytes were placed behind a value with a
\* destructor: one thunk ran
C12_Witness ==
    /\ Created /\ md.strong_rc = 0
    /\ Len(log) = 1
    /\ \E i \in DOMAIN placed : placed[i].kind = "bytes"
    /\ \E i \in DOMAIN placed : placed[i].kind = "auto_drop"

\* the cells placed by N::new and N::outlives
Cells == {p \in DOMAIN heap : heap[p].kind = "NMetadata"}

\* the runs of the destructor of the value placed at p (positions in drops)
DropsOf(p) == {k \in DOMAIN drops : drops[k].ptr = p /\ drops[k].k = 0}

(* C13: for a cell A made by N::new and a value B added with A.outlives(B),
   when the arena drains the destructor of B runs before the destructor of
   the value of A, and each runs exactly once (none runs before the drain);
   the same for every link of a chain A.outlives(B), B.outlives(C), whatever
   else was placed before, between or after them. *)
C13_OutlivedDropsFirst ==
    Created =>
       /\ md.strong_rc > 0 => \A p \in Cells : DropsOf(p) = {}
       /\ md.strong_rc = 0 =>
             \A p \in Cells :
                /\ Cardinality(DropsOf(p)) = 1
                /\ heap[p].owner # NULL =>
                      \A i \in DropsOf(p), j \in DropsOf(heap[p].owner) : i < j

\* the arena was drained with a chain A.outlives(B), B.outlives(C): three
\* destructors ran
C13_Witness ==
    /\ Created /\ md.strong_rc = 0
    /\ Len(drops) = 3
    /\ \E a, b, c \in Cells : heap[b].owner = a /\ heap[c].owner = b

(* C14: N::val and N::var return the value exactly while strong_rc > 0 and
   None once strong_rc is 0, although the N handle still exists; N::outlives
   on such a handle returns ArenaIsNotAlive and places nothing: blocks, pool,
   drop chain, cells and counts stay as they were. *)
C14_CellReadsWhileAlive ==
    [][/\ (ret'.op \in {"N::val", "N::var"}) =>
             /\ ret'.res \in {"Some", "None"}
             /\ (ret'.res = "Some") = (md.strong_rc > 0)
             /\ ret'.res = "Some" => ret'.out[1] \in Cells
       /\ (ret'.op = "N::outlives" /\ md.strong_rc = 0) =>
             /\ ret'.res = "ArenaIsNotAlive"
             /\ UNCHANGED <<pool, md, blocks, lists, placed, heap, log, drops,
                            stats, handles, owned, panic>>]_vars

\* outlives was refused on the handle of a cell whose value was destroyed
\* when the arena drained
C14_Witness ==
    /\ ret.op = "N::outlives" /\ ret.res = "ArenaIsNotAlive"
    /\ md.alloc = "live" /\ md.strong_rc = 0
    /\ Len(owned.cells) > 0
    /\ Len(drops) > 0

\* the fixed array of the program, once it is a FixedArray
HasArray == owned.arrays # <<>> /\ owned.arrays[1].state = "array"

TheArray == owned.arrays[1]

\* the runs of destructors of array items, in execution order: by the thunk of
\* the array ("drop") or at the end of ArrayInitializer::push ("push")
ItemDrops(by) ==
    SelectSeq(drops, LAMBDA d : d.by = by /\ (by = "push" \/ d.k # 0))

\* the positions in drops of the values whose thunk was registered before
\* (after) the thunk of the array
DropsAround(before) ==
    {k \in DOMAIN drops :
        \E e, t \in Range(log) :
           /\ t.fun = "drop_array" /\ t.data = TheArray._metadata
           /\ e.fun = "drop" /\ e.data = drops[k].ptr /\ drops[k].k = 0
           /\ IF before THEN e.id < t.id ELSE e.id > t.id}

ItemPositions == {k \in DOMAIN drops : drops[k].by = "drop" /\ drops[k].k # 0}

(* C15: for a fixed array made by FixedArray::new from an iterator of len
   items, no item is destroyed while strong_rc > 0; when the arena drains the
   one thunk of the array destroys the items 1..len once each in index order,
   after the values whose thunks were registered before the array and before
   those registered after it, and leaves len = 0, so that running the thunk
   again destroys nothing. *)
C15_ArrayItemsDroppedInOrder ==
    (Created /\ HasArray /\ TheArray.made = "new") =>
       /\ md.strong_rc > 0 =>
             /\ ItemDrops("drop") = <<>>
             /\ heap[TheArray._metadata]._len = TheArray._capacity
       /\ md.strong_rc = 0 =>
             /\ Len(ItemDrops("drop")) = TheArray._capacity
             /\ \A i \in 1..TheArray._capacity : ItemDrops("drop")[i].k = i
             /\ Cardinality({t \in DOMAIN log :
                                /\ log[t].fun = "drop_array"
                                /\ log[t].data = TheArray._metadata}) = 1
             /\ \A k \in ItemPositions :
                   /\ \A b \in DropsAround(TRUE) : b < k
                   /\ \A a \in DropsAround(FALSE) : k < a
             /\ heap[TheArray._metadata]._len = 0
             /\ drop_array(St, TheArray._metadata) = St

\* the arena was drained with an array of two items placed behind a value
\* with a destructor
C15_Witness ==
    /\ Created /\ HasArray /\ TheArray.made = "new"
    /\ md.strong_rc = 0
    /\ Len(ItemDrops("drop")) = 2
    /\ DropsAround(TRUE) # {}

\* the array of the program was made by with_capacity
HasInitializer == owned.arrays # <<>> /\ TheArray.made = "with_capacity"

(* C16: for an array made by with_capacity and filled through the safe
   initializer, no destructor of an item runs before the arena drains, and
   the drain of the arena leaves exactly K runs of item destructors when K
   items were pushed and initialized() was called, and none for an array that
   was not finished: every pushed item is destroyed once, by the thunk of the
   array. *)
C16_PushedItemsDroppedOnce ==
    [][(Created /\ HasInitializer /\ panic' = "none") =>
          /\ md'.strong_rc > 0 => ItemDrops("drop")' \o ItemDrops("push")' = <<>>
          /\ (md.strong_rc > 0 /\ md'.strong_rc = 0) =>
                Len(ItemDrops("drop")') + Len(ItemDrops("push")')
                   = IF TheArray.state = "array" THEN TheArray.initialized_len
                     ELSE 0]_vars

(* C17: an item fed to the safe initializer when it is full does not panic:
   push drops the item and leaves the array, its metadata and
   initialized_len (= capacity) as they were, and initialized() then returns
   the array with len = initialized_len <= capacity, never None. *)
C17_ExtraItemDiscarded ==
    [][(HasInitializer /\ panic = "none") =>
          /\ (ret'.op = "ArrayInitializer::push"
                /\ TheArray.initialized_len >= TheArray._capacity) =>
                /\ panic' = "none" /\ ret'.res = "Ok"
                /\ UNCHANGED <<pool, md, blocks, lists, placed, heap, log, stats>>
                /\ TheArray'.initialized_len = TheArray._capacity
                /\ Len(drops') = Len(drops) + 1
          /\ ret'.op = "ArrayInitializer::initialized" =>
                /\ panic' = "none" /\ ret'.res = "Some"
                /\ TheArray'.state = "array"
                /\ heap'[TheArray._metadata]._len = TheArray.initialized_len
                /\ TheArray.initialized_len <= TheArray._capacity]_vars

(* C17 as stated: an item fed to the safe initializer when it is full makes
   push panic. *)
C17_ExtraItemPanics ==
    [][(HasInitializer /\ panic = "none"
          /\ ret'.op = "ArrayInitializer::push"
          /\ TheArray.initialized_len >= TheArray._capacity)
            => panic' # "none"]_vars

\* the initializer of an array of capacity 2 was fed three items and
\* initialized() returned the array
C17_Witness ==
    /\ HasArray /\ TheArray.made = "with_capacity"
    /\ ret.op = "ArrayInitializer::initialized" /\ ret.res = "Some"
    /\ TheArray._capacity = 2 /\ TheArray.fed = 3
    /\ panic = "none"

\* the number of items of the array while the arena is alive
ArrayLen ==
    IF TheArray.made = "new" THEN TheArray._capacity ELSE TheArray.initialized_len

(* C18: for a fixed array whose handle survives the strong handles of the
   arena, iter() yields the items of the array in index order while
   strong_rc > 0 and no item once strong_rc is 0; len() returns Some(len)
   while strong_rc > 0 and None afterwards. *)
C18_ArrayReadsWhileAlive ==
    [][(HasArray /\ panic = "none") =>
          /\ ret'.op = "FixedArray::iter" =>
                ret'.out = IF md.strong_rc > 0 THEN [i \in 1..ArrayLen |-> i]
                           ELSE <<>>
          /\ ret'.op = "FixedArray::len" =>
                IF md.strong_rc > 0
                THEN ret'.res = "Some" /\ ret'.out = <<ArrayLen>>
                ELSE ret'.res = "None"]_vars

\* iter() of an array of two items yielded nothing after the arena drained
\* and destroyed the items
C18_Witness ==
    /\ HasArray /\ TheArray.made = "new" /\ TheArray._capacity = 2
    /\ ret.op = "FixedArray::iter" /\ ret.out = <<>>
    /\ md.strong_rc = 0
    /\ Len(ItemDrops("drop")) = 2

HasList == owned.lists # <<>>

TheList == owned.lists[1]

(* C19: after n successful List::push calls on a live arena, also when n
   passes multiples of the MAX_ITEMS slots of a sequence, len() is n and
   iter() and empty_if_dead_iter() yield exactly the n items pushed, in the
   order of the pushes. *)
C19_ListKeepsInsertionOrder ==
    (Created /\ HasList /\ md.strong_rc > 0) =>
       /\ List_len(St, TheList).res.out = <<Len(TheList.pushed)>>
       /\ List_iter(St, TheList).res.res = "Some"
       /\ List_iter(St, TheList).res.out = TheList.pushed
       /\ List_empty_if_dead_iter(St, TheList).res.out = TheList.pushed
       /\ \A i, j \in DOMAIN TheList.pushed :
             i < j => TheList.pushed[i] < TheList.pushed[j]

\* the list holds more items than two sequences take
C19_Witness ==
    /\ Created /\ HasList /\ md.strong_rc > 0
    /\ Len(TheList.pushed) > 2 * MAX_ITEMS
    /\ ret.op = "List::push" /\ ret.res = "Ok"
    /\ heap[heap[TheList._first].next_list].next_list = TheList._last

(* C20: once strong_rc is 0, iter() of a List handle is None and
   empty_if_dead_iter() yields no item, while len() still reports the number
   of items pushed before; List::push returns ArenaIsNotAlive and leaves len,
   the sequences and the arena as they were. *)
C20_ListAfterDrain ==
    [][(HasList /\ md.strong_rc = 0 /\ panic = "none") =>
          /\ ret'.op = "List::iter" => ret'.res = "None" /\ ret'.out = <<>>
          /\ ret'.op = "List::empty_if_dead_iter" => ret'.out = <<>>
          /\ ret'.op = "List::len" => ret'.out = <<Len(TheList.pushed)>>
          /\ ret'.op = "List::push" =>
                /\ ret'.res = "ArenaIsNotAlive"
                /\ UNCHANGED <<pool, md, blocks, lists, placed, heap, log, stats,
                               handles, owned, panic>>]_vars

\* len() of a list of two items was asked after the arena drained
C20_Witness ==
    /\ HasList /\ md.strong_rc = 0 /\ md.rc > 0
    /\ ret.op = "List::len" /\ ret.out = <<2>>
    /\ Len(drops) = 2

\* the call that returned s refused its input with res and changed nothing
Refused(s, res) ==
    /\ s.res.res = res
    /\ [s EXCEPT !.res = St.res] = St

\* the call that returned s placed the bytes of value and one NUL behind them
\* in one region, registered no thunk and took one weak handle
PlacedStr(s, value) ==
    /\ s.res.res = "Ok" /\ s.panic = "none"
    /\ Len(s.placed) = Len(placed) + 1
    /\ s.res.ptr = Len(s.placed)
    /\ s.placed[s.res.ptr].kind = "bytes"
    /\ s.placed[s.res.ptr].size = value.len + 1
    /\ s.heap[s.res.ptr].bytes = value /\ s.heap[s.res.ptr].then = <<0>>
    /\ s.stats.registered = stats.registered
    /\ s.lists = lists /\ s.log = log
    /\ s.md.rc = md.rc + 1 /\ s.md.strong_rc = md.strong_rc

\* UStr::from_str as the claim has it, s being what the call returned
FromStrAsStated(s, value) ==
    IF value.len > MAX_USTR THEN Refused(s, "StringIsTooLong")
    ELSE IF value.nul THEN Refused(s, "StrContainsNul")
    ELSE PlacedStr(s, value)

\* UStr::from_str with the refusal of the placement
FromStrAmended(s, value) ==
    IF value.len > MAX_USTR THEN Refused(s, "StringIsTooLong")
    ELSE IF value.nul THEN Refused(s, "StrContainsNul")
    ELSE IF value.len + 1 > largest_item_size(blocks[md.last_block])
    THEN Refused(s, "ItemDoesNotFit")
    ELSE PlacedStr(s, value)

(* C21: UStr::from_str refuses an input longer than 65534 bytes with
   StringIsTooLong and an input with a zero byte with StrContainsNul, and an
   input of len bytes with len + 1 > block size - header size with
   ItemDoesNotFit, in all three cases placing nothing, taking no weak handle
   and leaving the counts as they were; every other input is placed as
   len + 1 bytes, the input and one NUL, in the last block or in a fresh one,
   with no thunk registered and only total_rc raised, by one. *)
C21_FromStrRefusesOrPlaces ==
    (HasArena /\ md.alloc = "live") =>
       \A value \in cfg.strs, debug \in BOOLEAN :
          FromStrAmended(UStr_from_str(St, value, debug), value)

(* C21 as stated: every input of at most 65534 bytes without a zero byte is
   placed. *)
C21_FromStrAlwaysPlaces ==
    (HasArena /\ md.alloc = "live") =>
       \A value \in cfg.strs, debug \in BOOLEAN :
          FromStrAsStated(UStr_from_str(St, value, debug), value)

\* a string of 48 bytes was placed with its NUL in a second block
C21_Witness ==
    /\ ret.op = "UStr::from_str" /\ ret.res = "Ok" /\ ret.req = 48
    /\ owned.strs # <<>>
    /\ placed[owned.strs[1]].size = 49
    /\ placed[owned.strs[1]].block # placed[1].block
    /\ heap[owned.strs[1]].then = <<0>>

(* C22: for every pool configuration with min_free >= 0 and max_free >= 0 and
   every sequence of calls, take_block returns a block: the free list is never
   empty at the pop, the expect "no allocated memory" never fails. *)
C22_TakeBlockNeverFails ==
    panic # "no allocated memory"

(* C23: immediately after a pool is built with any min_free and max_free its
   free list holds max_free blocks of new_block_size bytes. *)
C23_BuiltWithMaxFree ==
    ret.op = "Memory::build" => Len(pool.free_blocks) = pool.max_free

\* the number of free blocks that a cleanup of the pool keeps
Kept == IF Len(pool.free_blocks) < pool.max_free
        THEN Len(pool.free_blocks) ELSE pool.max_free

(* C24: Memory::cleanup on a pool with f free blocks leaves min(f, max_free)
   free blocks and returns (f - min(f, max_free)) * block_size; with
   f <= max_free it changes nothing and returns 0; the blocks it deallocates
   come from the free list, never from the blocks an arena holds, and the
   arena is left as it was. *)
C24_CleanupToMaxFree ==
    [][(ret'.op = "Memory::cleanup" /\ PoolAlive) =>
          /\ Len(pool'.free_blocks) = Kept
          /\ ret'.out = <<(Len(pool.free_blocks) - Kept) * pool.new_block_size>>
          /\ Len(pool.free_blocks) <= pool.max_free =>
                (pool' = pool /\ ret'.out = <<0>>)
          /\ pool'.dropped \ pool.dropped \subseteq Range(pool.free_blocks)
          /\ (pool'.dropped \ pool.dropped) \cap DOMAIN blocks = {}
          /\ Range(pool'.free_blocks) \subseteq Range(pool.free_blocks)
          /\ UNCHANGED <<md, blocks, lists, placed, heap, log, drops, stats,
                         handles, owned, panic>>]_vars

\* a cleanup released one of two free blocks while an arena held its block
C24_Witness ==
    /\ ret.op = "Memory::cleanup" /\ ret.out = <<pool.new_block_size>>
    /\ Len(pool.free_blocks) = pool.max_free
    /\ Cardinality(pool.dropped) = 1
    /\ md.alloc = "live" /\ DOMAIN blocks # {}

\* how many holders the buffer b has: places in the free list and in the
\* block chains of the arenas of the threads
Holders(b) ==
    Count(pool.free_blocks, b)
       + Cardinality({<<t, i>> \in (DOMAIN threads) \X (1..MaxBlocks) :
                         i <= Len(threads[t].chain) /\ threads[t].chain[i] = b})

(* C25: with several threads that create, fill and drop their own arenas on
   clones of one pool, under every interleaving of take_block, return_block
   and cleanup every buffer the pool allocated has exactly one holder, the
   free list or the block chain of one arena, until cleanup deallocates it,
   and then none: no buffer is held by two arenas and none is twice in the
   free list. *)
C25_OneHolderPerBuffer ==
    threads # <<>> =>
       \A b \in 1..(pool.next_id - 1) :
          Holders(b) = IF b \in pool.dropped THEN 0 ELSE 1

\* both threads hold an arena of two blocks, one of which is a block that
\* another arena returned before, after a cleanup deallocated a buffer
C25_Witness ==
    /\ \A t \in DOMAIN threads : Len(threads[t].chain) = MaxBlocks
    /\ Len(threads) = MaxThreads
    /\ pool.dropped # {}
    /\ pool.next_id > 2 * MaxBlocks + 1

\* the last handle of the arena goes in this step
LastHandleDropped == Created /\ md.rc > 0 /\ md'.rc = 0 /\ panic' = "none"

(* C26: if the free count of the pool is F before an arena is created, then
   after the arena has placed any number of items and all its strong and weak
   handles have been dropped the free count is F plus the number of buffers
   the pool allocated in the meantime (a take_block that finds fewer than
   min_free free blocks refills the list to max_free before it pops) minus
   the number of buffers deallocated in the meantime; every block the arena
   took is in the free list again.  The count is F again when no take_block
   of the arena refilled the list. *)
C26_FreeCountAfterArena ==
    [][LastHandleDropped =>
          /\ Len(pool'.free_blocks)
                = Len(stats.before.free_blocks)
                    + (pool'.next_id - stats.before.next_id)
                    - Cardinality(pool'.dropped \ stats.before.dropped)
          /\ (pool'.next_id = stats.before.next_id
                 /\ pool'.dropped = stats.before.dropped)
                => Len(pool'.free_blocks) = Len(stats.before.free_blocks)]_vars

(* C26 as stated: after all handles of the arena have been dropped the free
   count of the pool is what it was before the arena was created. *)
C26_FreeCountRestored ==
    [][LastHandleDropped =>
          Len(pool'.free_blocks) = Len(stats.before.free_blocks)]_vars

\* the last handle of an arena that took a second block after a refill was
\* dropped: the pool has one free block more than before the arena
C26_Witness ==
    /\ Created /\ md.rc = 0 /\ ret.op \in DropOps
    /\ Cardinality(stats.taken) = 2
    /\ pool.next_id = stats.before.next_id + 1
    /\ Len(pool.free_blocks) = Len(stats.before.free_blocks) + 1

HasGrown == owned.grown # <<>>

TheGrown == owned.grown[1]

(* C27: for the growable array, after N pushes and M pops on a live arena no
   element has been destroyed by the arena; when the arena drains exactly the
   N - M elements that the array holds are destroyed, those at the indices
   0 .. N-M-1 in index order, once each, and none of the M popped elements. *)
C27_PoppedElementsNotDestroyed ==
    (Created /\ HasGrown) =>
       /\ Len(TheGrown.held) = TheGrown.pushed - Len(TheGrown.popped)
       /\ heap[TheGrown._metadata].len = Len(TheGrown.held)
       /\ md.strong_rc > 0 => ItemDrops("element") = <<>>
       /\ md.strong_rc = 0 =>
             /\ Len(ItemDrops("element")) = Len(TheGrown.held)
             /\ \A i \in DOMAIN TheGrown.held :
                   /\ ItemDrops("element")[i].ptr = TheGrown.held[i]
                   /\ ItemDrops("element")[i].k = heap[TheGrown.held[i]].item
             /\ \A d \in Range(ItemDrops("element")) :
                   d.k \notin Range(TheGrown.popped)

\* the arena was drained after four pushes, through two growths of the
\* table, and two pops, the second push coming after the first pop
C27_Witness ==
    /\ Created /\ HasGrown /\ md.strong_rc = 0
    /\ TheGrown.pushed = 4 /\ Len(TheGrown.popped) = 2
    /\ TheGrown.popped[1] = 1
    /\ heap[TheGrown._metadata].capacity = 4
    /\ Len(ItemDrops("element")) = 2

(* C28: during the teardown of an arena no block is returned to the pool
   before the drop chain has finished: every thunk the arena executes was
   executed before its first block went back to the pool. *)
C28_ThunksBeforeReturnBlock ==
    (Created /\ stats.reclaims > 0) => Len(log) = stats.executed

\* the WeakArena handles that values placed in the arena own
RECURSIVE WeakInValues(_)
WeakInValues(n) ==
    IF n = 0 THEN 0 ELSE placed[n].weak + WeakInValues(n - 1)

\* the live WeakArena handles: those the program holds, the one inside every
\* container handle it holds, and those owned by values in the arena
WeakHandles ==
    handles.weak + Len(owned.cells) + Len(owned.arrays) + Len(owned.lists)
       + Len(owned.strs) + Len(owned.grown) + WeakInValues(Len(placed))

(* C29: in every reachable state of a live arena strong_rc is the number of
   live Arena handles and total_rc the number of live Arena and WeakArena
   handles; so clone and a successful upgrade add one to both, to_weak_arena
   and WeakArena::clone one to total_rc only, the drop of an Arena takes one
   from both and the drop of a WeakArena one from total_rc only. *)
C29_CountsAreHandles ==
    (Created /\ md.alloc = "live" /\ panic = "none") =>
       /\ md.strong_rc = handles.strong
       /\ md.rc = handles.strong + WeakHandles

\* after an Arena was dropped a strong handle is live and a weak one that a
\* value placed in the arena owns
C29_Witness ==
    /\ Created /\ md.alloc = "live" /\ panic = "none"
    /\ ret.op = "drop(Arena)"
    /\ handles.strong = 1
    /\ WeakHandles = 1 /\ WeakInValues(Len(placed)) = 1
    /\ md.rc = 2

\* the cursor of block header h lies between the header and the end of the
\* block
CursorInBlock(h) ==
    size_of_BlockMetadata <= h.next_item_offset /\ h.next_item_offset <= h.len

(* C30: for every block an arena holds, header_size <= cursor <= block_size
   after every operation, and no operation (a placement that succeeds or
   fails, the linking of a new block, draining) decreases the cursor of a
   block the arena already held. *)
C30_CursorInBlockAndMonotone ==
    [][\A b \in DOMAIN blocks' :
          /\ CursorInBlock(blocks'[b])
          /\ (b \in DOMAIN blocks /\ md'.id = md.id)
                => blocks'[b].next_item_offset >= blocks[b].next_item_offset]_vars

\* node l has the slots [0, used) occupied and the slots after them empty
SlotsInOrder(l) ==
    /\ l.used_items = Len(l.items)
    /\ l.used_items <= MAX_DROP_LIST_ITEMS
    /\ \A i \in DOMAIN l.items : l.items[i] # None

(* C31: while the arena is live every drop-list node has the slots [0, used)
   occupied and the others empty, a node has a successor only if it is full,
   the successors lead from the first node to the last, and the last node is
   not full between operations: a registration that fills a node has linked a
   fresh empty node before it returns.  So write_item never indexes past the
   capacity. *)
C31_DropListNodesWellFormed ==
    /\ panic # "index out of bounds"
    /\ (Created /\ md.alloc = "live" /\ md.strong_rc > 0 /\ panic = "none") =>
          /\ md.first_drop_list = 1 /\ md.last_drop_list = Len(lists)
          /\ \A n \in DOMAIN lists :
                /\ SlotsInOrder(lists[n])
                /\ IF n < Len(lists)
                   THEN /\ lists[n].next_list = n + 1
                        /\ lists[n].used_items = MAX_DROP_LIST_ITEMS
                   ELSE /\ lists[n].next_list = NULL
                        /\ lists[n].used_items < MAX_DROP_LIST_ITEMS

\* the registration that filled the first node has returned: the first node
\* is full and linked to a fresh empty node
C31_Witness ==
    /\ Created /\ md.alloc = "live" /\ md.strong_rc > 0 /\ panic = "none"
    /\ Len(lists) = 2
    /\ lists[1].used_items = MAX_DROP_LIST_ITEMS
    /\ lists[2].used_items = 0
    /\ stats.registered = MAX_DROP_LIST_ITEMS

\* the arena after execute_drop_chain is called once more on the head node
ExecutedAgain == execute_drop_chain(St, 1)

(* C32: execute_drop_chain is idempotent: once it has run, every slot it
   executed is cleared and the links it followed are removed, and a second
   call on the same head node invokes no thunk and runs no destructor. *)
C32_ExecuteDropChainIdempotent ==
    (Created /\ stats.drop_chains > 0 /\ panic = "none") =>
       /\ \A n \in DOMAIN lists :
             /\ lists[n].next_list = NULL
             /\ \A i \in DOMAIN lists[n].items : lists[n].items[i] = None
       /\ ExecutedAgain.log = log
       /\ ExecutedAgain.drops = drops
       /\ ExecutedAgain.lists = lists

\* a chain of two nodes was executed, more thunks than one node holds
C32_Witness ==
    /\ Created /\ stats.drop_chains = 1 /\ panic = "none"
    /\ Len(lists) = 2
    /\ Len(log) > MAX_DROP_LIST_ITEMS
    /\ lists[1].used_items = MAX_DROP_LIST_ITEMS
    /\ ExecutedAgain.log = log

\* the cells added with a.outlives(..), a later call giving a larger pointer
Outlived(a) == {p \in Cells : heap[p].owner = a}

(* C33: when a cell A has had several outlives calls, A.outlives(B1) then
   A.outlives(B2) ..., at the drain the values are destroyed in the order
   Bn, ..., B2, B1 and then the value of A, each exactly once, and no Bi has
   a thunk of its own in the drop list of the arena. *)
C33_OutlivedDropInReverse ==
    Created =>
       \A a \in Cells :
          /\ \A b \in Outlived(a) :
                \A t \in Waiting \cup Range(log) : t.data # b
          /\ md.strong_rc = 0 =>
                /\ \A b \in Outlived(a) \cup {a} : Cardinality(DropsOf(b)) = 1
                /\ \A b1, b2 \in Outlived(a) :
                      b1 < b2 => \A i \in DropsOf(b2), j \in DropsOf(b1) : i < j
                /\ \A b \in Outlived(a) :
                      \A i \in DropsOf(b), j \in DropsOf(a) : i < j

\* the arena was drained after A.outlives(B1) and A.outlives(B2)
C33_Witness ==
    /\ Created /\ md.strong_rc = 0
    /\ Len(drops) = 3
    /\ \E a \in Cells : Cardinality(Outlived(a)) = 2

NewFailed(r) ==
    r.op = "Arena::new" /\ r.res \in {"DropListDoesNotFit", "MetadataDoesNotFit"}

(* C34: when Arena::new fails with DropListDoesNotFit or MetadataDoesNotFit no
   handle and no counters exist afterwards (the program holds no handle of an
   arena, no metadata was written, the pool has the handles it had) and the
   block taken for the arena is not put back: the free list is the one the
   take left, one block shorter than the list it popped from. *)
C34_FailedNewKeepsBlock ==
    [][NewFailed(ret') =>
         /\ handles' = handles /\ handles'.strong = 0 /\ handles'.weak = 0
         /\ md' = md /\ md'.alloc # "live" /\ blocks' = blocks
         /\ pool'.arc = pool.arc
         /\ pool'.free_blocks = take_block(pool).pool.free_blocks
         /\ Len(pool'.free_blocks)
               = Len(check_if_not_enough_blocks_and_initialize(pool).free_blocks) - 1
         /\ take_block(pool).block \notin Range(pool'.free_blocks)]_vars

\* Arena::new failed twice on a pool of (1, 1): the second call refilled the
\* pool and took the new buffer
C34_Witness ==
    /\ NewFailed(ret) /\ ret.res = "MetadataDoesNotFit"
    /\ pool.free_blocks = <<>>
    /\ pool.dropped = {1, 2}
    /\ pool.arc = 1

\* thread t returns the last block of its chain in this step
Returns(t) == Len(threads'[t].chain) < Len(threads[t].chain)

(* C35: return_block appends the buffer to the free list, the free count
   grows by exactly one and no buffer is deallocated, also when the count
   then exceeds max_free; of the operations of the pool only cleanup
   deallocates buffers of the free list. *)
C35_ReturnBlockDoesNotShrink ==
    [][/\ \A t \in DOMAIN threads :
             Returns(t) =>
                /\ pool'.free_blocks
                      = Append(pool.free_blocks,
                               threads[t].chain[Len(threads[t].chain)])
                /\ Len(pool'.free_blocks) = Len(pool.free_blocks) + 1
                /\ pool'.dropped = pool.dropped
       /\ pool'.dropped # pool.dropped =>
             /\ threads' = threads
             /\ Len(pool.free_blocks) > pool.max_free
             /\ Len(pool'.free_blocks) = pool.max_free]_vars

\* blocks were returned to a free list that was at max_free already: it holds
\* two buffers more than max_free and none was deallocated
C35_Witness ==
    /\ threads # <<>> /\ panic = "none"
    /\ Len(pool.free_blocks) >= pool.max_free + 2
    /\ pool.dropped = {}
    /\ \A t \in DOMAIN threads : threads[t].chain = <<>>

(* C36: when FixedArray::new or FixedArray::with_capacity fails with
   ItemDoesNotFit because the region of the items is larger than
   largest_item_size, the arena is as it was before the call: no cursor has
   advanced and no thunk was added to the drop chain. *)
C36_FailedArrayLeavesArena ==
    [][(/\ ret'.op \in {"FixedArray::new", "FixedArray::with_capacity"}
        /\ ret'.res = "ItemDoesNotFit")
          => (/\ blocks' = blocks
              /\ lists' = lists
              /\ stats'.registered = stats.registered)]_vars

(* C37: for every sequence of handle drops, also when the last weak handle of
   the arena is owned by a value of the arena and dropped by a thunk while
   Arena::drop executes the drop chain, reclaim_memory runs at most once per
   arena and the clone of the pool handle kept in the metadata is released
   exactly once: the pool outlives the handle the program holds. *)
C37_ReclaimedOnce ==
    /\ stats.reclaims <= 1
    /\ stats.memory_drops <= 1
    /\ pool.arc >= 1

\* how often the destructor of item k of the array has run, at a push or by
\* the thunk of the array
ItemRuns(k) ==
    Cardinality({i \in DOMAIN drops :
                    drops[i].k = k /\ drops[i].by \in {"push", "drop"}})

(* C38: every item handed to ArrayInitializer::push and stored in the array
   has its destructor run exactly once over the whole run: none runs at the
   push or while the arena is alive, and the one run is made when the arena
   drains. *)
C38_StoredItemDestroyedOnce ==
    (Created /\ HasInitializer) =>
       \A k \in 1..TheArray.initialized_len :
          /\ md.strong_rc > 0 => ItemRuns(k) = 0
          /\ (md.strong_rc = 0 /\ TheArray.state = "array") => ItemRuns(k) = 1

(* C39: a List::push that fails with ItemDoesNotFit leaves the list as it
   was: len() is unchanged, no slot of the last sequence is consumed, and
   iteration still yields exactly len() items, the items pushed, in insertion
   order. *)
C39_FailedPushLeavesList ==
    [][(ret'.op = "List::push" /\ ret'.res = "ItemDoesNotFit") =>
          /\ owned'.lists[1]._len = owned.lists[1]._len
          /\ owned'.lists[1]._last = owned.lists[1]._last
          /\ heap'[owned.lists[1]._last].used_items
                = heap[owned.lists[1]._last].used_items
          /\ ListIter_collect([heap |-> heap'],
                              [current |-> owned'.lists[1]._first, index |-> 0], <<>>)
                = owned'.lists[1].pushed]_vars

(* C40: the len() of the iterator returned by FixedArray::iter equals the
   number of items the iterator yields, the array length when the arena is
   alive and 0 when it is dead. *)
C40_IterLenIsItemsYielded ==
    [][ret'.op = "FixedArray::iter" =>
          FixedArray_iter_len(St, owned.arrays[1]._metadata) = Len(ret'.out)]_vars

=============================================================================
